---- MODULE Spec2Model ----
(***************************************************************************)
(* A model of riot: the expansion of a Venv tree into VenvInstances         *)
(* (riot/venv.py), the preparation of an instance's prefix                  *)
(* (VenvInstance.prepare), the namespace-package scope (nspkgs) and the     *)
(* run loop of Session.run (riot/riot.py).                                  *)
(*                                                                          *)
(* Python strings that the code takes apart character by character          *)
(* (package names, versions, pip strings) are sequences of one-character    *)
(* strings; dicts are sequences of <<key, value>> pairs in insertion order. *)
(***************************************************************************)
EXTENDS Integers, Sequences, FiniteSets, TLC

VARIABLES
    venv,       \* Session.venv: the Venv tree, an arena of nodes (parent index first)
    insts,      \* list(venv.instances()) once the expansion has run
    epc,        \* position of the expansion: "init" | "listed"
    base_len,   \* len(str(py.base_venv_path)): the length of <riot_folder>/venv_py<version>
    fs,         \* the paths that exist under the riot folder
    objs,       \* the instance objects prepare can reach from its targets
    ptargets,   \* the objects prepare is called on
    pyof,       \* the py attribute of each object
    pcall,      \* the last prepare call: its arguments, what it invoked, how it ended
    penv,       \* the PYTHONPATH and PATH composed for the instance prepared last
    ccall,      \* the last direct call that creates a virtualenv: its arguments, what it
                \* invoked, how it ended, the paths before and after it
    args,       \* the arguments of Session.run
    host,       \* the interpreter hints that resolve on the host
    rpc,        \* position of Session.run: "idle" | "base" | "loop" | "summary" | "exited" | "listed"
    ri,         \* the place in the enumeration of the instance the loop is at
    results,    \* Session.run's results list
    status,     \* the exit status of the process, None while it runs
    summary,    \* the results the summary has reported, NoSummary before the summary
    tally,      \* num_passed, num_warnings, num_failed as the summary printed them
    escaped,    \* the exception that left Session.run, "no" if none
    prepared,   \* the places of the instances inst.prepare was called on, in order
    executed,   \* the places of the instances whose command was run, in order
    trouble,    \* the failures and interrupts that arrived, in order
    listed,     \* the places of the instances Session.list_venvs has printed, in order
    logged,     \* the warnings and errors about interpreters that were logged, in order
    ns_impl,    \* the namespace scope in use: "nspkgs" (venv.py) | "Session.run" (riot.py)
    nspc,       \* position of the scope: "idle" | "outside" | "inside" | "released"
    sitepkgs,   \* the site-packages directories: the files (name, content) of each
    dst_ns_files,   \* the files the scope has copied into the destination
    moved_ns_files, \* the destination files the scope has moved to a backup
    ns_before,  \* the destination directory as it was when the scope was entered
    digest,     \* the hex digest hash() gives each (name, py, full_pkg_str), as a table
    matched,    \* the last call of matches_pattern: instance, pattern, answer
    hints,      \* the interpreter hints the riotfile gives, as written, in order
    required_set,   \* generate_base_venvs' required_pys: a set of Interpreters, as a list
    resolved,   \* the Interpreters whose executable was looked up, in order
    ipc         \* position of generate_base_venvs: "idle" | "init" | "required"

expandVars == <<venv, insts, epc>>
prepareRest == <<base_len, objs, ptargets, pyof, pcall, penv, ccall>>
prepareVars == <<base_len, fs, objs, ptargets, pyof, pcall, penv, ccall>>
runVars == <<args, host, rpc, ri, results, status, summary, tally, escaped, prepared, executed,
             trouble, listed, logged>>
nsVars == <<ns_impl, nspc, sitepkgs, dst_ns_files, moved_ns_files, ns_before>>
matchVars == <<digest, matched>>
interpVars == <<hints, required_set, resolved, ipc>>
vars == <<venv, insts, epc, base_len, fs, objs, ptargets, pyof, pcall, penv, ccall, args, host,
          rpc, ri,
          results, status, summary, tally, escaped, prepared, executed, trouble, listed, logged,
          ns_impl, nspc, sitepkgs, dst_ns_files, moved_ns_files, ns_before, digest, matched,
          hints, required_set, resolved, ipc>>

(***************************************************************************)
(* Bounds of the model.                                                    *)
(***************************************************************************)
\* the longest list of alternatives (versions of a package, values of an env var)
MaxVers == 2

(***************************************************************************)
(* Values.                                                                 *)
(***************************************************************************)
None == "None"
\* the absent parent instance (parent_inst=None)
NoInst == [none |-> TRUE]

PkgA == <<"a">>
PkgB == <<"b">>
\* '==1.0', '==10', '' : version strings
VersionPool == << <<"=", "=", "1", ".", "0">>, <<"=", "=", "1", "0">>, <<>> >>
ValuePool == <<"x1", "x2", "x3">>
Vers(n) == SubSeq(VersionPool, 1, n)
Vals(n) == SubSeq(ValuePool, 1, n)

\* no summary yet: a list no results list is equal to
NoSummary == << [inst |-> 0, code |-> 0, output |-> <<>>] >>

\* nothing counted yet
NoTally == [num_passed |-> 0, num_warnings |-> 0, num_failed |-> 0]

\* the parts of the state a specification leaves alone
IdleRun ==
    /\ args = None
    /\ host = {}
    /\ rpc = "idle"
    /\ ri = 0
    /\ results = <<>>
    /\ status = None
    /\ summary = NoSummary
    /\ tally = NoTally
    /\ escaped = "no"
    /\ prepared = <<>>
    /\ executed = <<>>
    /\ trouble = <<>>
    /\ listed = <<>>
    /\ logged = <<>>

\* no call of matches_pattern yet
NoMatch == [inst |-> 0, pattern |-> <<>>, result |-> FALSE]

IdleMatch ==
    /\ digest = <<>>
    /\ matched = NoMatch

IdleInterp ==
    /\ hints = <<>>
    /\ required_set = <<>>
    /\ resolved = <<>>
    /\ ipc = "idle"

IdleNs ==
    /\ ns_impl = None
    /\ nspc = "idle"
    /\ sitepkgs = <<>>
    /\ dst_ns_files = <<>>
    /\ moved_ns_files = <<>>
    /\ ns_before = {}

(***************************************************************************)
(* Sequence and dict helpers.                                              *)
(***************************************************************************)
\* a list with the elements of f, each element evaluated once
List(f) == f \o <<>>

RECURSIVE ConcatAll(_)
ConcatAll(ss) == IF ss = <<>> THEN <<>> ELSE Head(ss) \o ConcatAll(Tail(ss))

Range(seq) == { seq[k] : k \in 1..Len(seq) }

\* list.index(x)
IndexOf(seq, x) == CHOOSE i \in 1..Len(seq) : seq[i] = x

\* k in d
HasKey(d, k) == \E i \in 1..Len(d) : d[i][1] = k
\* d[k]
Get(d, k) == d[CHOOSE i \in 1..Len(d) : d[i][1] = k][2]
\* d[k] = v : an existing key keeps its place, a new key goes last
DictSet(d, k, v) ==
    IF HasKey(d, k)
    THEN List([i \in 1..Len(d) |-> IF d[i][1] = k THEN <<k, v>> ELSE d[i]])
    ELSE Append(d, <<k, v>>)
\* d.update(e)
RECURSIVE DictUpdate(_, _)
DictUpdate(d, e) ==
    IF e = <<>> THEN d ELSE DictUpdate(DictSet(d, e[1][1], e[1][2]), Tail(e))

(***************************************************************************)
(* riot/utils.py                                                           *)
(***************************************************************************)
\* expand_specs with zip in place of itertools.product: the i-th value of every key
expand_specs_zip(specs) ==
    LET n == IF specs = <<>> THEN 1
             ELSE CHOOSE m \in 0..MaxVers + 1 :
                    /\ \A i \in 1..Len(specs) : m <= Len(specs[i][2])
                    /\ \E i \in 1..Len(specs) : m = Len(specs[i][2])
    IN  List([m \in 1..n |-> List([i \in 1..Len(specs) |-> <<specs[i][1], specs[i][2][m]>>])])

\* expand_specs with the first key varying fastest
RECURSIVE expand_specs_first_fastest(_)
expand_specs_first_fastest(specs) ==
    IF specs = <<>> THEN << <<>> >>
    ELSE LET name == specs[1][1]
             vals == specs[1][2]
             rest == expand_specs_first_fastest(Tail(specs))
         IN  List([m \in 1..(Len(vals) * Len(rest)) |->
                 << <<name, vals[((m - 1) % Len(vals)) + 1]>> >>
                     \o rest[((m - 1) \div Len(vals)) + 1]])

\* itertools.product over the (name, value) lists of the dict, in dict order:
\* the last key varies fastest
RECURSIVE expand_specs(_)
expand_specs(specs) ==
    IF specs = <<>> THEN << <<>> >>
    ELSE LET name == specs[1][1]
             vals == specs[1][2]
             rest == expand_specs(Tail(specs))
         IN  List([m \in 1..(Len(vals) * Len(rest)) |->
                 << <<name, vals[((m - 1) \div Len(rest)) + 1]>> >>
                     \o rest[((m - 1) % Len(rest)) + 1]])

(***************************************************************************)
(* The Venv tree. Node i of the arena holds the fields of one Venv and the  *)
(* index of the Venv whose venvs list it is in (0 for the root); the venvs  *)
(* list of a node is its children in index order.                           *)
(***************************************************************************)
Node(name, command, pys, pkgs, env, create) ==
    [name |-> name, command |-> command, pys |-> pys, pkgs |-> pkgs,
     env |-> env, create |-> create, skip_dev_install |-> FALSE]

\* the Venv declarations a node is drawn from
Profiles ==
    { Node(None, None, <<>>, <<>>, <<>>, FALSE),
      Node("t", "cmd", <<"3.8", "3.9">>, <<>>, <<>>, FALSE),
      Node(None, None, <<>>, << <<PkgA, Vers(MaxVers)>> >>, <<>>, FALSE),
      Node(None, "cmd", <<>>, << <<PkgB, Vers(MaxVers)>>, <<PkgA, Vers(2)>> >>, <<>>, FALSE),
      Node("u", None, <<>>, <<>>, << <<"E", Vals(MaxVers)>> >>, FALSE),
      Node(None, None, <<"3.9">>, << <<PkgA, <<VersionPool[2]>> >> >>,
           << <<"F", <<"x1">> >>, <<"E", <<"x2">> >> >>, TRUE),
      Node("t", "cmd", <<"3.8", "3.9">>, << <<PkgB, Vers(2)>> >>,
           << <<"E", Vals(MaxVers)>> >>, FALSE),
      [Node("u", "cmd", <<>>, << <<PkgB, <<VersionPool[1]>> >> >>, <<>>, TRUE)
          EXCEPT !.skip_dev_install = TRUE] }

\* parent vectors of the trees: a single node, a parent and a child, a parent
\* and two children, a chain of three
Shapes == { <<0>>, <<0, 1>>, <<0, 1, 1>>, <<0, 1, 2>> }

\* the trees of a shape whose nodes are drawn from decls
TreesOver(shape, decls) ==
    { [i \in 1..Len(shape) |-> [parent |-> shape[i], decl |-> f[i]]] :
        f \in [1..Len(shape) -> decls] }

TreesOf(shape) == TreesOver(shape, Profiles)

Trees == UNION { TreesOf(s) : s \in Shapes }

\* Venv.venvs of node v
Venvs(tree, v) ==
    LET RECURSIVE From(_)
        From(i) == IF i > Len(tree) THEN <<>>
                   ELSE (IF tree[i].parent = v THEN <<i>> ELSE <<>>) \o From(i + 1)
    IN  From(1)

(***************************************************************************)
(* riot/venv.py: VenvInstance                                              *)
(***************************************************************************)
\* VenvInstance._inherited
Inherited(own, parent, attr) ==
    IF own # None THEN own
    ELSE IF parent # NoInst THEN parent[attr] ELSE None

\* VenvInstance.__post_init__, the loop over the ancestors of a create venv:
\* the packages of the ancestors up to the nearest create ancestor are added
\* unless the instance declares them itself
RECURSIVE AncestorPkgs(_, _, _)
AncestorPkgs(tree, pkgs, ancestor) ==
    IF ancestor = NoInst THEN pkgs
    ELSE LET add == SelectSeq(ancestor.pkgs, LAMBDA p : ~HasKey(pkgs, p[1]))
             merged == pkgs \o add
         IN  IF tree[ancestor.venv].decl.create THEN merged
             ELSE AncestorPkgs(tree, merged, ancestor.parent)

\* VenvInstance(venv=, py=, env=, pkgs=, parent=) and __post_init__
VenvInstance(tree, v, py, env, pkgs, parent) ==
    [venv |-> v, py |-> py, env |-> env,
     pkgs |-> IF tree[v].decl.create THEN AncestorPkgs(tree, pkgs, parent) ELSE pkgs,
     parent |-> parent,
     name |-> Inherited(tree[v].decl.name, parent, "name"),
     command |-> Inherited(tree[v].decl.command, parent, "command")]

RECURSIVE instances(_, _, _)

\* Venv.instances without env.update(dict(env_spec)): the parent's env only
instances_no_env_update(tree, v, parent_inst) ==
    LET d == tree[v].decl
        env_specs == expand_specs(d.env)
        pys == IF d.pys # <<>> THEN d.pys
               ELSE << IF parent_inst # NoInst THEN parent_inst.py ELSE None >>
        pkg_specs == expand_specs(d.pkgs)
        kids == Venvs(tree, v)
        Env(e) == IF parent_inst # NoInst THEN parent_inst.env ELSE <<>>
        Inst(e, p, k) == VenvInstance(tree, v, pys[p], Env(e), pkg_specs[k], parent_inst)
        Below(inst) ==
            IF kids = <<>> THEN <<inst>>
            ELSE ConcatAll(List([c \in 1..Len(kids) |-> instances(tree, kids[c], inst)]))
    IN  ConcatAll(List([e \in 1..Len(env_specs) |->
            ConcatAll(List([p \in 1..Len(pys) |->
                ConcatAll(List([k \in 1..Len(pkg_specs) |-> Below(Inst(e, p, k))]))]))]))

\* Venv.instances with the update the other way round: the parent's value of a
\* key is kept
instances_parent_env_wins(tree, v, parent_inst) ==
    LET d == tree[v].decl
        env_specs == expand_specs(d.env)
        pys == IF d.pys # <<>> THEN d.pys
               ELSE << IF parent_inst # NoInst THEN parent_inst.py ELSE None >>
        pkg_specs == expand_specs(d.pkgs)
        kids == Venvs(tree, v)
        Env(e) == DictUpdate(env_specs[e],
                             IF parent_inst # NoInst THEN parent_inst.env ELSE <<>>)
        Inst(e, p, k) == VenvInstance(tree, v, pys[p], Env(e), pkg_specs[k], parent_inst)
        Below(inst) ==
            IF kids = <<>> THEN <<inst>>
            ELSE ConcatAll(List([c \in 1..Len(kids) |-> instances(tree, kids[c], inst)]))
    IN  ConcatAll(List([e \in 1..Len(env_specs) |->
            ConcatAll(List([p \in 1..Len(pys) |->
                ConcatAll(List([k \in 1..Len(pkg_specs) |-> Below(Inst(e, p, k))]))]))]))

\* Venv.instances(parent_inst)
instances(tree, v, parent_inst) ==
    LET d == tree[v].decl
        env_specs == expand_specs(d.env)
        pys == IF d.pys # <<>> THEN d.pys
               ELSE << IF parent_inst # NoInst THEN parent_inst.py ELSE None >>
        pkg_specs == expand_specs(d.pkgs)
        kids == Venvs(tree, v)
        Env(e) == DictUpdate(IF parent_inst # NoInst THEN parent_inst.env ELSE <<>>,
                             env_specs[e])
        Inst(e, p, k) == VenvInstance(tree, v, pys[p], Env(e), pkg_specs[k], parent_inst)
        Below(inst) ==
            IF kids = <<>> THEN <<inst>>
            ELSE ConcatAll(List([c \in 1..Len(kids) |-> instances(tree, kids[c], inst)]))
    IN  ConcatAll(List([e \in 1..Len(env_specs) |->
            ConcatAll(List([p \in 1..Len(pys) |->
                ConcatAll(List([k \in 1..Len(pkg_specs) |-> Below(Inst(e, p, k))]))]))]))

\* VenvInstance.full_pkg_str, the dict it builds: the chain from the root to
\* the instance (the instance itself is in the chain twice), each updating
\* the dict with its packages
RECURSIVE ChainOf(_, _)
ChainOf(current, chain) ==
    IF current = NoInst THEN chain
    ELSE ChainOf(current.parent, <<current>> \o chain)

RECURSIVE UpdateAll(_, _)
UpdateAll(pkgs, chain) ==
    IF chain = <<>> THEN pkgs
    ELSE UpdateAll(DictUpdate(pkgs, Head(chain).pkgs), Tail(chain))

\* full_pkg_str updating from the leaf to the root: the ancestor's value is kept
RECURSIVE UpdateAllReversed(_, _)
UpdateAllReversed(pkgs, chain) ==
    IF chain = <<>> THEN pkgs
    ELSE UpdateAllReversed(DictUpdate(pkgs, chain[Len(chain)].pkgs),
                           SubSeq(chain, 1, Len(chain) - 1))

full_pkgs_root_wins(inst) == UpdateAllReversed(<<>>, ChainOf(inst, <<inst>>))

full_pkgs(inst) == UpdateAll(<<>>, ChainOf(inst, <<inst>>))

(***************************************************************************)
(* riot/utils.py, riot/venv.py: the strings and paths of an instance.       *)
(***************************************************************************)
RECURSIVE Join(_, _)
Join(parts, sep) ==
    IF parts = <<>> THEN <<>>
    ELSE IF Len(parts) = 1 THEN parts[1]
    ELSE parts[1] \o sep \o Join(Tail(parts), sep)

\* str.split(): the runs of characters between blanks
RECURSIVE Split(_, _)
Split(s, word) ==
    IF s = <<>> THEN (IF word = <<>> THEN <<>> ELSE <<word>>)
    ELSE IF Head(s) = " "
         THEN (IF word = <<>> THEN <<>> ELSE <<word>>) \o Split(Tail(s), <<>>)
         ELSE Split(Tail(s), Append(word, Head(s)))

\* rmchars(chars, s)
rmchars(chars, s) == SelectSeq(s, LAMBDA c : c \notin chars)

get_pep_dep(libname, version) == libname \o version

\* pip_deps(pkgs): "'lib1version1' 'lib2version2'"
pip_deps(pkgs) ==
    Join(List([i \in 1..Len(pkgs) |->
                 <<"'">> \o get_pep_dep(pkgs[i][1], pkgs[i][2]) \o <<"'">>]), <<" ">>)

full_pkg_str(inst) == pip_deps(full_pkgs(inst))

\* the characters VenvInstance.ident removes from each requirement
IdentChars == {"<", "=", ">", ".", ",", ":", "+", "@", "/"}

\* VenvInstance.ident
ident(inst) ==
    LET words == Split(SelectSeq(full_pkg_str(inst), LAMBDA c : c # "'"), <<>>)
    IN  Join(List([i \in 1..Len(words) |-> rmchars(IdentChars, words[i])]), <<"_">>)

\* What prepare reads of an instance object: the Venv it comes from, its
\* resolved name and the strings computed from its packages; parent is the
\* position of the parent object among the objects (0: none)
Obj(inst, parent) ==
    [venv |-> inst.venv, name |-> inst.name, has_pkgs |-> inst.pkgs # <<>>,
     ident |-> ident(inst), full_pkg_str |-> full_pkg_str(inst), parent |-> parent]

\* VenvInstance.__hash__ that leaves repr(py) out of what it digests
long_hash_no_py(o, py) == <<o.name, None, o.full_pkg_str>>

\* VenvInstance.__hash__ / long_hash: the digest of repr(name), repr(py) and
\* full_pkg_str, one digest per triple
long_hash(o, py) == <<o.name, py, o.full_pkg_str>>

\* VenvInstance.short_hash: long_hash[:7]
short_hash(o, py) == <<"[:7]", long_hash(o, py)>>

\* the longest path VenvInstance.prefix names after the packages
MaxPathLen == 255

NoPath == <<>>

\* Interpreter.base_venv_path
base_venv_path(py) == <<"venv", py>>

\* VenvInstance.prefix falling back to the hash from MaxPathLen on
prefix_hash_at_limit(o, py, blen) ==
    IF py = None THEN NoPath
    ELSE IF blen + 1 + Len(o.ident) >= MaxPathLen
         THEN <<"prefix", py, <<"hash", short_hash(o, py)>> >>
         ELSE <<"prefix", py, <<"ident", o.ident>> >>

\* the prefix named after the short hash whatever the length
prefix_by_hash(o, py, blen) ==
    IF py = None THEN NoPath ELSE <<"prefix", py, <<"hash", short_hash(o, py)>> >>

\* VenvInstance.prefix, py being the instance's py attribute
prefix(o, py, blen) ==
    IF py = None THEN NoPath
    ELSE IF blen + 1 + Len(o.ident) > MaxPathLen
         THEN <<"prefix", py, <<"hash", short_hash(o, py)>> >>
         ELSE <<"prefix", py, <<"ident", o.ident>> >>

\* VenvInstance.venv_path: the prefix of the closest create instance from the
\* instance upwards, else the base venv of the instance's interpreter
RECURSIVE ClosestCreated(_, _, _, _, _)
ClosestCreated(tree, os, current, pys, blen) ==
    IF current = 0 THEN NoPath
    ELSE IF tree[os[current].venv].decl.create
         THEN <<"created", prefix(os[current], pys[current], blen)>>
    ELSE ClosestCreated(tree, os, os[current].parent, pys, blen)

venv_path(tree, os, self, pys, blen) ==
    LET created == ClosestCreated(tree, os, self, pys, blen)
    IN  IF created # NoPath THEN created[2]
        ELSE IF pys[self] # None THEN base_venv_path(pys[self])
        ELSE NoPath

(***************************************************************************)
(* riot/venv.py: VenvInstance.prepare. One call runs the body for the       *)
(* instance and recurses into the parents; an external command that fails   *)
(* raises and ends the call. st holds the file system, the py attributes    *)
(* and the commands invoked so far.                                         *)
(***************************************************************************)
\* one external command: it is invoked, then fails (raising exc) or leaves made
Invoke(st, runs, call, fails, made, exc) ==
    IF st.raised # "no" \/ ~runs THEN st
    ELSE IF fails THEN [st EXCEPT !.calls = Append(@, call), !.raised = exc]
    ELSE [st EXCEPT !.calls = Append(@, call), !.fs = @ \cup made]

\* What a directory holds besides what its creation put there: <<"added", dir>>
\* is in fs when something was added to dir since, <<"changed", dir>> when a
\* package installed in it was replaced by another version.
Marks(dir) == { <<"added", dir>>, <<"changed", dir>> }

\* shutil.rmtree(path)
rmtree(files, path) == files \ ({path} \cup Marks(path))

\* VirtualEnv.create that deletes an existing directory whatever force is
create_force_ignored(st, path, force, fails) ==
    IF st.raised # "no" THEN st
    ELSE IF path = NoPath THEN [st EXCEPT !.raised = "ValueError"]
    ELSE LET gone == IF path \in st.fs
                     THEN [st EXCEPT !.calls = Append(@, <<"rmtree", path>>),
                                     !.fs = rmtree(@, path)]
                     ELSE st
         IN  Invoke(gone, TRUE, <<"virtualenv", path>>, fails, {path}, "CmdFailure")

\* VirtualEnv.create(force)
create(st, path, force, fails) ==
    IF st.raised # "no" THEN st
    ELSE IF path = NoPath THEN [st EXCEPT !.raised = "ValueError"]
    ELSE IF path \in st.fs /\ ~force THEN st
    ELSE LET gone == IF path \in st.fs
                     THEN [st EXCEPT !.calls = Append(@, <<"rmtree", path>>),
                                     !.fs = rmtree(@, path)]
                     ELSE st
         IN  Invoke(gone, TRUE, <<"virtualenv", path>>, fails, {path}, "CmdFailure")

\* Interpreter.create_venv(recreate) of riot/riot.py: virtualenv is run over
\* the directory that is there
create_venv(st, path, recreate, fails) ==
    IF path \in st.fs /\ ~recreate THEN st
    ELSE Invoke(st, TRUE, <<"virtualenv", path>>, fails, {path}, "CmdFailure")

\* whether the requirements are compiled, on the flag alone
Compiles_on_request_only(recompile_reqs, compiled) == recompile_reqs

\* whether the requirements are compiled: compiled tells whether
\* requirements/<short_hash>.txt exists
Compiles(recompile_reqs, compiled) == recompile_reqs \/ ~compiled

\* the body of the install branch (venv.py 505-554); world.fail is the command
\* that fails, world.setup whether a setup.py or pyproject.toml is there
Install(tree, os, st, self, py, recompile_reqs, blen, world) ==
    LET decl == tree[os[self].venv].decl
        vpath == venv_path(tree, os, self, st.pyof, blen)
        pfx == prefix(os[self], py, blen)
        reqs == <<"requirements", short_hash(os[self], py)>>
        deps == <<"deps", vpath>>
        \* VirtualEnv.create() of the venv itself, force=False
        a == IF decl.create THEN create(st, vpath, FALSE, world.fail = "virtualenv") ELSE st
        \* VirtualEnv.install(): the dev package
        b == Invoke(a, decl.create /\ ~decl.skip_dev_install /\ world.setup,
                    <<"devinstall", vpath>>, world.fail = "devinstall", {}, "CmdFailure")
        \* self.requirements: pip-tools compiles requirements/<short_hash>.txt
        c == Invoke(b, Compiles(recompile_reqs, reqs \in b.fs),
                    <<"compile", reqs, os[self].full_pkg_str>>, world.fail = "compile",
                    {reqs}, "CalledProcessError")
        \* VirtualEnv.create() of the deps venv
        d == IF decl.create THEN c ELSE create(c, deps, FALSE, world.fail = "depsvenv")
        \* pip install --prefix <prefix> -r <requirements>: what the requirements
        \* name is installed again, what else the prefix holds is left
        e == Invoke(d, TRUE, <<"pip", pfx, reqs>>, world.fail = "pip", {pfx}, "CmdFailure")
        \* assert venv_path is not None, py
    IN  IF vpath = NoPath THEN [st EXCEPT !.raised = "AssertionError"]
        ELSE IF e.raised = "no" THEN [e EXCEPT !.fs = @ \ {<<"changed", pfx>>}]
        ELSE e

\* child_was_installed of the recursive call, without what the caller was given
ChildWasInstalled_not_inherited(installed, exists, child_was_installed) == installed \/ exists

\* child_was_installed of the recursive call
ChildWasInstalled_installed_only(installed, exists, child_was_installed) == installed

ChildWasInstalled(installed, exists, child_was_installed) ==
    installed \/ exists \/ child_was_installed

\* the interpreter of the instance, whatever the caller passes
PyOrSelf_self_only(py_arg, self_py) == self_py

\* py or self.py
PyOrSelf(py_arg, self_py) == IF py_arg # None THEN py_arg ELSE self_py

\* whether prepare goes on to the parent, create or not
Recurses_past_create(is_create, parent) == parent # 0

\* whether prepare goes on to the parent: the instance is not of a create Venv
\* and has a parent
Recurses(is_create, parent) == ~is_create /\ parent # 0

\* prepare(env, py, recreate, skip_deps, recompile_reqs, child_was_installed);
\* skip_deps is not read by the body
RECURSIVE prepare(_, _, _, _, _, _, _, _, _, _)
prepare(tree, os, st, self, py_arg, recreate_arg, recompile_reqs, child_was_installed, blen, world) ==
    LET py == PyOrSelf(py_arg, st.pyof[self])
        st1 == [st EXCEPT !.pyof[self] = py]
        recreate == recreate_arg \/ recompile_reqs
        pfx == prefix(os[self], py, blen)
        exists == pfx # NoPath /\ pfx \in st1.fs
        install == /\ py # None
                   /\ pfx # NoPath
                   /\ (pfx \notin st1.fs \/ recreate \/ recompile_reqs)
                   /\ ~child_was_installed
        st2 == IF install
               THEN Install(tree, os, st1, self, py, recompile_reqs, blen, world)
               ELSE st1
        installed == install /\ st2.raised = "no"
    IN  IF st2.raised # "no" THEN st2
        ELSE IF Recurses(tree[os[self].venv].decl.create, os[self].parent)
             THEN prepare(tree, os, st2, os[self].parent, py, FALSE, FALSE,
                          ChildWasInstalled(installed, exists, child_was_installed),
                          blen, world)
             ELSE st2

\* the instances on the chain of an instance
RECURSIVE Chain(_)
Chain(inst) == IF inst = NoInst THEN {} ELSE {inst} \cup Chain(inst.parent)

RECURSIVE SetToSeq(_)
SetToSeq(S) == IF S = {} THEN <<>>
               ELSE LET x == CHOOSE x \in S : TRUE IN <<x>> \o SetToSeq(S \ {x})

\* the instances prepare is called on: the first and the last of the expansion
Targets(is) == IF is = <<>> THEN {} ELSE {1, Len(is)}

\* the instance objects prepare can reach from the targets, and what it reads
\* of each
Objects(is) ==
    LET chain == SetToSeq(UNION { Chain(is[t]) : t \in Targets(is) })
        At(inst) == IF inst = NoInst THEN 0 ELSE IndexOf(chain, inst)
    IN  List([i \in 1..Len(chain) |->
            [o |-> Obj(chain[i], At(chain[i].parent)), py |-> chain[i].py,
             target |-> { t \in Targets(is) : is[t] = chain[i] }]])

\* the commands that can fail
FailPoints == {"none", "virtualenv", "devinstall", "compile", "depsvenv", "pip"}

\* nothing composed yet
NoEnv == [target |-> 0, raised |-> "no", site_packages_list |-> <<>>, PYTHONPATH |-> <<>>,
          PATH |-> <<>>]

\* no direct call yet
NoCreate == [op |-> "none", path |-> <<>>, force |-> FALSE, calls |-> <<>>, raised |-> "no",
             before |-> {}, after |-> {}]

NoCall == [target |-> 0, recreate |-> FALSE, recompile_reqs |-> FALSE,
           existed |-> FALSE, calls |-> <<>>, raised |-> "no", before |-> {}, after |-> {}]

\* the trees prepare is run on: chains of Venvs that declare interpreters or
\* packages and expand to at most MaxVers instances each
PrepareProfiles ==
    { d \in Profiles :
        /\ d.pys # <<>> \/ d.pkgs # <<>>
        /\ Len(expand_specs(d.env)) * Len(expand_specs(d.pkgs))
            * (IF d.pys = <<>> THEN 1 ELSE Len(d.pys)) <= MaxVers }

PrepareTrees ==
    { t \in Trees : \A i \in 1..Len(t) : t[i].parent = i - 1 /\ t[i].decl \in PrepareProfiles }

\* os: the objects of the expansion
InitObjects(os) ==
    /\ objs = List([i \in 1..Len(os) |-> os[i].o])
    /\ pyof = List([i \in 1..Len(os) |-> os[i].py])
    /\ ptargets = { i \in 1..Len(os) : os[i].target # {} }

InitPrepare ==
    /\ venv \in PrepareTrees
    /\ insts = <<>>
    /\ epc = "init"
    /\ base_len \in {24, 252}
    /\ fs = {}
    /\ \E os \in {Objects(instances(venv, 1, NoInst))} : InitObjects(os)
    /\ pcall = NoCall
    /\ penv = NoEnv
    /\ ccall = NoCreate
    /\ IdleMatch
    /\ IdleInterp
    /\ IdleRun
    /\ IdleNs

\* the state a prepare call leaves: st, and the record of the call
Prepared(t, recreate, recompile_reqs, existed, st) ==
    /\ fs' = st.fs
    /\ pyof' = st.pyof
    /\ pcall' = [target |-> t, recreate |-> recreate, recompile_reqs |-> recompile_reqs,
                 existed |-> existed, calls |-> st.calls, raised |-> st.raised,
                 before |-> fs, after |-> st.fs]
    /\ penv' = NoEnv
    /\ ccall' = NoCreate
    /\ UNCHANGED <<expandVars, matchVars, interpVars, base_len, objs, ptargets, runVars, nsVars>>

\* inst.prepare(env, recreate=, recompile_reqs=)
Prepare(t, recreate, recompile_reqs, world) ==
    \E st \in {prepare(venv, objs, [fs |-> fs, pyof |-> pyof, calls |-> <<>>, raised |-> "no"],
                      t, None, recreate, recompile_reqs, FALSE, base_len, world)} :
        Prepared(t, recreate, recompile_reqs, prefix(objs[t], pyof[t], base_len) \in fs, st)

\* what the outside does to one call: one command fails, or none does and
\* the project has a setup.py or not
Worlds ==
    { [fail |-> f, setup |-> TRUE] : f \in FailPoints } \cup { [fail |-> "none", setup |-> FALSE] }

\* recompile_reqs sets recreate, so the two are not passed together
NextPrepare ==
    \E t \in ptargets, recreate, recompile_reqs \in BOOLEAN, world \in Worlds :
        /\ ~(recreate /\ recompile_reqs)
        /\ Prepare(t, recreate, recompile_reqs, world)

SpecPrepare == InitPrepare /\ [][NextPrepare]_vars

(***************************************************************************)
(* riot/venv.py: the search paths of an instance, and riot/riot.py          *)
(* Session.run composing PYTHONPATH and PATH from them once prepare has     *)
(* returned. A path list is the sequence of its entries.                    *)
(***************************************************************************)
\* site_pkgs(prefix, version_info): <prefix>/lib/python<X.Y>/site-packages
site_pkgs(dir, py) == <<"site-packages", dir, py>>

\* <dir>/bin
bin_dir(dir) == <<"bin", dir>>

\* Path.cwd()
Cwd == <<"cwd">>

\* os.environ["PATH"], os.environ["PYTHONPATH"]
OsPath == << <<"/usr/bin">>, <<"/bin">> >>
OsPythonPath == << <<"/opt/lib">> >>

\* the loop of path and of site_packages_list: the instances with packages
\* from the instance upwards, up to the first create venv or the root
RECURSIVE WithPkgsUpToCreate(_, _, _)
WithPkgsUpToCreate(tree, os, current) ==
    IF current = 0 THEN <<>>
    ELSE IF tree[os[current].venv].decl.create THEN <<>>
    ELSE (IF os[current].has_pkgs THEN <<current>> ELSE <<>>)
            \o WithPkgsUpToCreate(tree, os, os[current].parent)

\* what a property ends in: the assert on current.prefix fails when an
\* instance with packages has no interpreter
Asserted(tree, os, self, pys, blen) ==
    \E c \in Range(WithPkgsUpToCreate(tree, os, self)) : prefix(os[c], pys[c], blen) = NoPath

\* VenvInstance.path with the loop appending at the front
path_root_first(tree, os, self, pys, blen) ==
    LET with == WithPkgsUpToCreate(tree, os, self)
    IN  List([i \in 1..Len(with) |->
                bin_dir(prefix(os[with[Len(with) + 1 - i]], pys[with[Len(with) + 1 - i]], blen))])
        \o (IF ~tree[os[self].venv].decl.create /\ pys[self] # None
            THEN << bin_dir(base_venv_path(pys[self])) >> ELSE <<>>)

\* VenvInstance.path (the list that is joined)
path(tree, os, self, pys, blen) ==
    LET with == WithPkgsUpToCreate(tree, os, self)
    IN  List([i \in 1..Len(with) |-> bin_dir(prefix(os[with[i]], pys[with[i]], blen))])
        \o (IF ~tree[os[self].venv].decl.create /\ pys[self] # None
            THEN << bin_dir(base_venv_path(pys[self])) >> ELSE <<>>)

\* VenvInstance.site_packages_list with the base site-packages put first
site_packages_list_base_first(tree, os, self, pys, blen) ==
    LET with == WithPkgsUpToCreate(tree, os, self)
    IN  << <<>>, Cwd >>
        \o (IF ~tree[os[self].venv].decl.create /\ pys[self] # None
            THEN << site_pkgs(base_venv_path(pys[self]), pys[self]) >> ELSE <<>>)
        \o List([i \in 1..Len(with) |->
                   site_pkgs(prefix(os[with[i]], pys[with[i]], blen), pys[self])])

\* VenvInstance.site_packages_list
site_packages_list(tree, os, self, pys, blen) ==
    LET with == WithPkgsUpToCreate(tree, os, self)
    IN  << <<>>, Cwd >>
        \o List([i \in 1..Len(with) |->
                   site_pkgs(prefix(os[with[i]], pys[with[i]], blen), pys[self])])
        \o (IF ~tree[os[self].venv].decl.create /\ pys[self] # None
            THEN << site_pkgs(base_venv_path(pys[self]), pys[self]) >> ELSE <<>>)

\* the declarations of the chains the paths are composed on
PathProfiles ==
    { Node("t", "cmd", <<"3.8", "3.9">>, << <<PkgA, Vers(1)>> >>, <<>>, FALSE),
      Node(None, None, <<>>, << <<PkgB, Vers(MaxVers)>> >>, <<>>, FALSE),
      Node(None, "cmd", <<>>, <<>>, <<>>, FALSE),
      Node(None, "cmd", <<"3.9">>, << <<PkgA, <<VersionPool[2]>> >> >>, <<>>, TRUE),
      Node("u", None, <<>>, <<>>, <<>>, TRUE) }

PathTrees ==
    UNION { TreesOver(sh, PathProfiles) : sh \in { <<0>>, <<0, 1>>, <<0, 1, 2>> } }

\* a Venv that declares the interpreter and the packages, and under it two
\* Venvs that only name a command
TwinTrees ==
    { << [parent |-> 0, decl |-> Node(None, None, <<"3.9">>, << <<PkgA, <<VersionPool[2]>> >> >>,
                                      <<>>, FALSE)],
         [parent |-> 1, decl |-> Node(first, "cmd", <<>>, <<>>, <<>>, FALSE)],
         [parent |-> 1, decl |-> Node(second, "cmd", <<>>, <<>>, <<>>, is_create)] >> :
        first \in {"t"}, second \in {"t", "u"}, is_create \in BOOLEAN }

InitPaths ==
    /\ venv \in PathTrees \cup TwinTrees
    /\ insts = <<>>
    /\ epc = "init"
    /\ base_len \in {24, 251, 252}
    /\ fs = {}
    /\ \E os \in {Objects(instances(venv, 1, NoInst))} : InitObjects(os)
    /\ pcall = NoCall
    /\ penv = NoEnv
    /\ ccall = NoCreate
    /\ IdleMatch
    /\ IdleInterp
    /\ IdleRun
    /\ IdleNs

\* Session.run after inst.prepare(env) has returned: inst.pythonpath and
\* inst.path are put in front of what the environment has
ComposeEnv(t, pass_env) ==
    /\ pcall.target = t
    /\ pcall.raised = "no"
    /\ penv = NoEnv
    /\ penv' =
          IF Asserted(venv, objs, t, pyof, base_len)
          THEN [NoEnv EXCEPT !.target = t, !.raised = "AssertionError"]
          ELSE LET script_path == path(venv, objs, t, pyof, base_len)
                   pythonpath == site_packages_list(venv, objs, t, pyof, base_len)
               IN  [target |-> t, raised |-> "no",
                    site_packages_list |-> pythonpath,
                    PYTHONPATH |-> IF pass_env THEN pythonpath \o OsPythonPath ELSE pythonpath,
                    PATH |-> IF script_path # <<>> THEN script_path \o OsPath
                             ELSE IF pass_env THEN OsPath ELSE <<>>]
    /\ UNCHANGED <<expandVars, matchVars, interpVars, base_len, fs, objs, ptargets, pyof, pcall, ccall,
                   runVars, nsVars>>

NextPaths ==
    \/ \E t \in ptargets, recompile_reqs \in BOOLEAN :
          Prepare(t, FALSE, recompile_reqs, [fail |-> "none", setup |-> TRUE])
    \/ \E t \in ptargets, pass_env \in BOOLEAN : ComposeEnv(t, pass_env)

SpecPaths == InitPaths /\ [][NextPaths]_vars

(***************************************************************************)
(* riot/venv.py VirtualEnv.create and riot/riot.py Interpreter.create_venv  *)
(* called on a path, as tests/test_unit.py calls them, between the prepare  *)
(* calls and what a user installs into a directory by hand.                 *)
(***************************************************************************)
\* the most directories that hold something put there by hand
MaxMarks == 1

\* the trees: one Venv or a parent and a child, each with interpreters of its
\* own or an install boundary
CreateProfiles == { d \in PathProfiles : d.pys # <<>> \/ d.create }

CreateTrees == UNION { TreesOver(sh, CreateProfiles) : sh \in { <<0>>, <<0, 1>> } }

InitCreate ==
    /\ venv \in CreateTrees
    /\ insts = <<>>
    /\ epc = "init"
    /\ base_len = 24
    /\ fs = {}
    /\ \E os \in {Objects(instances(venv, 1, NoInst))} : InitObjects(os)
    /\ pcall = NoCall
    /\ penv = NoEnv
    /\ ccall = NoCreate
    /\ IdleMatch
    /\ IdleInterp
    /\ IdleRun
    /\ IdleNs

\* the directories virtualenvs are made in: the venv_path of each instance
VenvPaths ==
    { venv_path(venv, objs, t, pyof, base_len) : t \in 1..Len(objs) } \ {NoPath}

\* the marks of the directories that exist
MarksIn(files) == { x \in files : x[1] \in {"added", "changed"} }

\* a package is installed by hand into a directory (pip install in the tests)
Modify(dir, kind) ==
    /\ dir \in fs
    /\ dir[1] \in {"prefix", "venv"}
    /\ Cardinality(MarksIn(fs) \cup {<<kind, dir>>}) <= MaxMarks
    /\ fs' = fs \cup {<<kind, dir>>}
    /\ UNCHANGED <<expandVars, matchVars, interpVars, prepareRest, runVars, nsVars>>

\* the state a direct call leaves: st, and the record of the call, the last one now
Created(op, dir, force, st) ==
    /\ fs' = st.fs
    /\ ccall' = [op |-> op, path |-> dir, force |-> force, calls |-> st.calls,
                 raised |-> st.raised, before |-> fs, after |-> st.fs]
    /\ pcall' = NoCall
    /\ UNCHANGED <<expandVars, matchVars, interpVars, base_len, objs, ptargets, pyof, penv,
                   runVars, nsVars>>

\* VirtualEnv(py, dir).create(force)
VirtualEnvCreate(dir, force, fails) ==
    Created("VirtualEnv.create", dir, force,
            create([fs |-> fs, pyof |-> pyof, calls |-> <<>>, raised |-> "no"], dir, force, fails))

\* py.create_venv(recreate) on the base venv of an interpreter
InterpreterCreateVenv(dir, recreate, fails) ==
    /\ dir[1] = "venv"
    /\ Created("Interpreter.create_venv", dir, recreate,
               create_venv([fs |-> fs, pyof |-> pyof, calls |-> <<>>, raised |-> "no"],
                           dir, recreate, fails))

NextCreate ==
    \/ \E t \in ptargets, recreate \in BOOLEAN :
          Prepare(t, recreate, FALSE, [fail |-> "none", setup |-> TRUE])
    \/ \E dir \in fs, kind \in {"added", "changed"} : Modify(dir, kind)
    \/ \E dir \in VenvPaths, force, fails \in BOOLEAN : VirtualEnvCreate(dir, force, fails)
    \/ \E dir \in VenvPaths, recreate, fails \in BOOLEAN :
          InterpreterCreateVenv(dir, recreate, fails)

SpecCreate == InitCreate /\ [][NextCreate]_vars

(***************************************************************************)
(* The expansion: Session.list_venvs / Session.run iterate                  *)
(* self.venv.instances().                                                   *)
(***************************************************************************)
InitExpand ==
    /\ venv \in Trees
    /\ insts = <<>>
    /\ epc = "init"
    /\ base_len = 0
    /\ fs = {}
    /\ objs = <<>>
    /\ ptargets = {}
    /\ pyof = <<>>
    /\ pcall = NoCall
    /\ penv = NoEnv
    /\ ccall = NoCreate
    /\ IdleMatch
    /\ IdleInterp
    /\ IdleRun
    /\ IdleNs

Expand ==
    /\ epc = "init"
    /\ insts' = instances(venv, 1, NoInst)
    /\ epc' = "listed"
    /\ UNCHANGED <<venv, matchVars, interpVars, prepareVars, runVars, nsVars>>

NextExpand == Expand

SpecExpand == InitExpand /\ [][NextExpand]_vars

(***************************************************************************)
(* riot/venv.py: the hash of an instance as the text a user types, and      *)
(* VenvInstance.matches_pattern. The pattern is a regular expression of     *)
(* literal characters; the names of the model are one character long.       *)
(***************************************************************************)
\* the number of characters short_hash keeps of long_hash
ShortLen == 7

\* texts hex(hash(self))[2:] can be: two that agree on their first ShortLen
\* characters, one that shares three characters with them, one that shares none
HexPool ==
    { <<"1", "d", "6", "3", "e", "3", "e", "0">>,
      <<"1", "d", "6", "3", "e", "3", "e", "1">>,
      <<"1", "d", "6", "a", "a", "a", "a", "0">>,
      <<"6", "1", "e", "c", "4", "4", "a", "0">> }

\* what __hash__ reads of an instance besides its py
Hashable(inst) == [name |-> inst.name, full_pkg_str |-> full_pkg_str(inst)]

\* what __hash__ digests of each instance of a list
Hashed(is) == { long_hash(Hashable(is[i]), is[i].py) : i \in 1..Len(is) }

\* sha256 as a table: one text per digested triple, no text given twice
Digests(S) == { f \in [S -> HexPool] : \A a, b \in S : a # b => f[a] # f[b] }

\* VenvInstance.long_hash, the text
long_hash_hex(inst) == digest[long_hash(Hashable(inst), inst.py)]

\* VenvInstance.short_hash, the text: long_hash[:7]
short_hash_hex(inst) == SubSeq(long_hash_hex(inst), 1, ShortLen)

\* re.Pattern.match for a pattern of literal characters: the pattern is found
\* at the start of the string
re_match(pattern, string) ==
    /\ Len(pattern) <= Len(string)
    /\ SubSeq(string, 1, Len(pattern)) = pattern

\* VenvInstance.matches_pattern looking at the name only
matches_pattern_name_only(inst, pattern) ==
    inst.name # None /\ re_match(pattern, <<inst.name>>)

\* VenvInstance.matches_pattern
matches_pattern(inst, pattern) ==
    IF inst.name # None /\ re_match(pattern, <<inst.name>>)
    THEN TRUE
    ELSE re_match(pattern, short_hash_hex(inst))

\* the Venv declarations of the trees whose instances are matched: two with
\* the same packages declared in the two orders, one whose name is a hex digit
MatchProfiles ==
    { Node("t", "cmd", <<"3.8", "3.9">>, <<>>, << <<"E", Vals(2)>> >>, FALSE),
      Node(None, "cmd", <<"3.9">>,
           << <<PkgA, <<VersionPool[1]>> >>, <<PkgB, <<VersionPool[1]>> >> >>, <<>>, FALSE),
      Node(None, "cmd", <<"3.9">>,
           << <<PkgB, <<VersionPool[1]>> >>, <<PkgA, <<VersionPool[1]>> >> >>, <<>>, FALSE),
      Node("1", "cmd", <<"3.8">>, << <<PkgA, Vers(2)>> >>, <<>>, FALSE) }

MatchShapes == { <<0>>, <<0, 1>> }

\* the trees of those shapes, and the named root with two unnamed children
MatchTrees ==
    UNION { TreesOver(s, MatchProfiles) : s \in MatchShapes }
        \cup { tree \in TreesOver(<<0, 1, 1>>, MatchProfiles) :
                    /\ tree[1].decl.name = "t"
                    /\ tree[2].decl.name = None
                    /\ tree[3].decl.name = None }

\* the identifiers tried: the empty one, starts of the digest texts up to the
\* whole short and long text, a name, and a character no digest starts with
Patterns ==
    { SubSeq(h, 1, n) : h \in HexPool, n \in {0, 1, 3, ShortLen, ShortLen + 1} }
        \cup { <<"t">>, <<"f">> }

InitMatch ==
    /\ venv \in MatchTrees
    /\ insts = <<>>
    /\ epc = "init"
    /\ base_len = 0
    /\ fs = {}
    /\ objs = <<>>
    /\ ptargets = {}
    /\ pyof = <<>>
    /\ pcall = NoCall
    /\ penv = NoEnv
    /\ ccall = NoCreate
    /\ digest \in Digests(Hashed(instances(venv, 1, NoInst)))
    /\ matched = NoMatch
    /\ IdleInterp
    /\ IdleRun
    /\ IdleNs

\* the expansion alone, each instance with its digest
NextHash == Expand

SpecHash == InitMatch /\ [][NextHash]_vars

\* one call inst.matches_pattern(pattern) on an instance of the enumeration
MatchesPattern(i, pattern) ==
    /\ epc = "listed"
    /\ matched' = [inst |-> i, pattern |-> pattern,
                   result |-> matches_pattern(insts[i], pattern)]
    /\ UNCHANGED <<expandVars, digest, interpVars, prepareVars, runVars, nsVars>>

NextMatch ==
    \/ Expand
    \/ \E i \in 1..Len(insts), pattern \in Patterns : MatchesPattern(i, pattern)

SpecMatch == InitMatch /\ [][NextMatch]_vars

(***************************************************************************)
(* riot/interpreter.py, riot/riot.py: Interpreter, and the set of           *)
(* Interpreters Session.generate_base_venvs builds and then resolves. A     *)
(* hint is <<type, text>>: a str, an int of one digit, or a float of one    *)
(* digit before and one after the point.                                    *)
(***************************************************************************)
\* the hints a riotfile gives
HintPool ==
    { <<"float", <<"3", "7">> >>, <<"str", <<"3", ".", "7">> >>,
      <<"float", <<"3", "8">> >>, <<"str", <<"3", ".", "8">> >>,
      <<"int", <<"3">> >>, <<"str", <<"3">> >> }

\* the longest list of hints
MaxHints == 3

\* str(hint)
str(hint) ==
    IF hint[1] = "float" THEN <<hint[2][1], ".", hint[2][2]>> ELSE hint[2]

\* Interpreter(hint) that keeps the hint as it was given
Interpreter_hint_as_given(hint) == [_hint |-> hint]

\* Interpreter(hint): __post_init__ stores str(hint), the only field
Interpreter(hint) == [_hint |-> str(hint)]

\* the dataclass's __eq__ and __hash__: over the tuple of the fields
Interpreter_eq(a, b) == <<a._hint>> = <<b._hint>>
Interpreter_hash(a) == <<"hash", <<a._hint>> >>

\* set(list): an element is added unless the set holds one with the same hash
\* that is equal to it
RECURSIVE set(_)
set(xs) ==
    IF xs = <<>> THEN <<>>
    ELSE LET front == set(SubSeq(xs, 1, Len(xs) - 1))
             x == xs[Len(xs)]
         IN  IF \E k \in 1..Len(front) :
                    Interpreter_hash(front[k]) = Interpreter_hash(x) /\ Interpreter_eq(front[k], x)
             THEN front
             ELSE Append(front, x)

\* shutil.which on the host: "3" and "3.8" are the same executable, "3.7" is
\* not installed
which(cmd) ==
    IF cmd \in { <<"3">>, <<"3", ".", "8">> } THEN <<"/usr/bin/python3.8">> ELSE <<>>

\* Interpreter.path(): the executable, <<>> when FileNotFoundError is raised
Interpreter_path(py) == which(py._hint)

\* the orders a set of n elements can be iterated in
Orders(n) == { f \in [1..n -> 1..n] : \A a, b \in 1..n : a # b => f[a] # f[b] }

InitInterp ==
    /\ venv = <<>>
    /\ insts = <<>>
    /\ epc = "init"
    /\ base_len = 0
    /\ fs = {}
    /\ objs = <<>>
    /\ ptargets = {}
    /\ pyof = <<>>
    /\ pcall = NoCall
    /\ penv = NoEnv
    /\ ccall = NoCreate
    /\ IdleMatch
    /\ hints \in UNION { [1..n -> HintPool] : n \in 1..MaxHints }
    /\ required_set = <<>>
    /\ resolved = <<>>
    /\ ipc = "init"
    /\ IdleRun
    /\ IdleNs

\* generate_base_venvs builds required_pys from the py of the instances
RequiredPys ==
    /\ ipc = "init"
    /\ \E pys \in { set(List([i \in 1..Len(hints) |-> Interpreter(hints[i])])) } :
          \E order \in Orders(Len(pys)) :
              required_set' = List([k \in 1..Len(pys) |-> pys[order[k]]])
    /\ ipc' = "required"
    /\ UNCHANGED <<expandVars, matchVars, hints, resolved, prepareVars, runVars, nsVars>>

\* one turn of `for py in required_pys`: py.create_venv reads self.venv_path,
\* which looks the executable up
CreateVenv ==
    /\ ipc = "required"
    /\ Len(resolved) < Len(required_set)
    /\ LET py == required_set[Len(resolved) + 1]
       IN  resolved' = Append(resolved, [py |-> py, path |-> Interpreter_path(py)])
    /\ UNCHANGED <<expandVars, matchVars, hints, required_set, ipc, prepareVars, runVars, nsVars>>

NextInterp == RequiredPys \/ CreateVenv

SpecInterp == InitInterp /\ [][NextInterp]_vars

(***************************************************************************)
(* riot/riot.py: Session.run and what it calls. One step is                 *)
(* generate_base_venvs, one iteration of the loop over the enumeration, or  *)
(* the summary; an exception that nothing catches ends the process.         *)
(***************************************************************************)
\* the longest enumeration the run is checked on
MaxRun == 4

\* the return code of a command that fails: CmdFailure.code, never 0
FailCode == 2

\* the Venv declarations of the trees the run is checked on (riot.py's Venv has
\* no create)
RunProfiles ==
    { Node(None, None, <<>>, <<>>, <<>>, FALSE),
      Node("t", "cmd", <<"3.8", "3.9">>, <<>>, <<>>, FALSE),
      Node(None, None, <<>>, << <<PkgA, Vers(2)>> >>, <<>>, FALSE),
      Node("u", "cmd", <<>>, << <<PkgB, Vers(1)>> >>, <<>>, FALSE) }

RunShapes == { <<0>>, <<0, 1>>, <<0, 1, 1>> }

RECURSIVE IsAncestor(_, _, _)
IsAncestor(tree, a, v) ==
    tree[v].parent # 0 /\ (tree[v].parent = a \/ IsAncestor(tree, a, tree[v].parent))

\* instances() is a generator and prepare assigns the py of every parent it
\* recurses into, so a Venv without pys that is expanded after a prepare reads
\* the py its parent object was left with. In these trees it reads the
\* declared one: a Venv with pys that comes before a Venv without pys is one
\* of its ancestors.
LazySafe(tree) ==
    \A c, d \in 1..Len(tree) :
        d < c /\ tree[d].decl.pys # <<>> /\ tree[c].decl.pys = <<>> => IsAncestor(tree, d, c)

RunTrees ==
    { t \in UNION { TreesOver(sh, RunProfiles) : sh \in RunShapes } :
        LazySafe(t) /\ Len(instances(t, 1, NoInst)) <= MaxRun }

\* pattern is the set of names pattern.match accepts, venv_pattern the
\* interpreter whose venv paths venv_pattern.search accepts (None: all),
\* pythons the interpreter filter (empty: none)
Filters ==
    { [pattern |-> {"t", "u"}, venv_pattern |-> None, pythons |-> {}],
      [pattern |-> {"t"}, venv_pattern |-> None, pythons |-> {}],
      [pattern |-> {"t", "u"}, venv_pattern |-> None, pythons |-> {"3.9"}],
      [pattern |-> {"t", "u"}, venv_pattern |-> "3.8", pythons |-> {}] }

RunArgs ==
    { [pattern |-> f.pattern, venv_pattern |-> f.venv_pattern, pythons |-> f.pythons,
       skip_missing |-> sm, exit_first |-> ef] :
        f \in Filters, sm \in BOOLEAN, ef \in BOOLEAN }

Hosts == { {"3.8", "3.9"}, {"3.9"} }

\* riot.py VenvInstance.needs_venv
needs_venv(inst) == pip_deps(inst.pkgs) # <<>>

\* riot.py VenvInstance.venv_path, py being the instance's py attribute
riot_venv_path(inst, py) ==
    IF py = None THEN NoPath
    ELSE IF needs_venv(inst)
         THEN <<"venv", py,
                List([i \in 1..Len(inst.pkgs) |->
                        inst.pkgs[i][1] \o rmchars({"<", "=", ">", ".", ","}, inst.pkgs[i][2])])>>
         ELSE base_venv_path(py)

\* riot.py VenvInstance.prepare(env, py): virtualenv and pip for every instance
\* of the chain that has packages; fail is the command that fails, an
\* interrupt arriving in the first command that runs
RECURSIVE riot_prepare(_, _, _, _)
riot_prepare(st, self, py_arg, fail) ==
    LET py == IF py_arg # None THEN py_arg ELSE self.py
        vpath == riot_venv_path(self, py)
        a == Invoke(st, py # None /\ needs_venv(self), <<"virtualenv", vpath>>,
                    fail \in {"virtualenv", "interrupt"}, {vpath},
                    IF fail = "interrupt" THEN "KeyboardInterrupt" ELSE "CmdFailure")
        b == Invoke(a, py # None /\ needs_venv(self), <<"pip", vpath, pip_deps(self.pkgs)>>,
                    fail = "pip", {}, "CmdFailure")
    IN  IF b.raised # "no" \/ self.parent = NoInst THEN b
        ELSE riot_prepare(b, self.parent, py, fail)

\* the checks without the look-up of the interpreter: an interpreter that is
\* not found is not noticed
Filter_missing_not_checked(inst, a, h) ==
    IF inst.command = None THEN "continue"
    ELSE IF inst.name # None /\ inst.name \notin a.pattern THEN "continue"
    ELSE IF inst.py = None THEN "AssertionError"
    ELSE IF a.pythons # {} /\ inst.py \notin a.pythons THEN "continue"
    ELSE IF a.venv_pattern # None /\ a.venv_pattern # inst.py THEN "continue"
    ELSE "run"

\* the checks of one iteration before the result is made: what they end in
Filter(inst, a, h) ==
    IF inst.command = None THEN "continue"
    ELSE IF inst.name # None /\ inst.name \notin a.pattern THEN "continue"
    ELSE IF inst.py = None THEN "AssertionError"
    ELSE IF a.pythons # {} /\ inst.py \notin a.pythons THEN "continue"
    ELSE IF inst.py \notin h
         THEN (IF a.skip_missing THEN "continue" ELSE "FileNotFoundError")
    ELSE IF a.venv_pattern # None /\ a.venv_pattern # inst.py THEN "continue"
    ELSE "run"

\* the skip_missing branch: logger.warning("Skipping missing interpreter %s")
Warns(inst, a, h) ==
    /\ Filter(inst, a, h) = "continue"
    /\ Filter(inst, [a EXCEPT !.skip_missing = FALSE], h) = "FileNotFoundError"

\* the checks of one iteration of Session.list_venvs: what they end in.
\* inst.venv_path is None without an interpreter (venv_pattern.search raises
\* TypeError) and raises FileNotFoundError when the interpreter is not found
ListFilter_name_not_checked(inst, a, h) ==
    IF a.pythons # {} /\ inst.py \notin a.pythons THEN "continue"
    ELSE IF inst.py = None THEN "TypeError"
    ELSE IF inst.py \notin h THEN "FileNotFoundError"
    ELSE IF a.venv_pattern # None /\ a.venv_pattern # inst.py THEN "continue"
    ELSE "echo"

ListFilter(inst, a, h) ==
    IF inst.name = None \/ inst.name \notin a.pattern THEN "continue"
    ELSE IF a.pythons # {} /\ inst.py \notin a.pythons THEN "continue"
    ELSE IF inst.py = None THEN "TypeError"
    ELSE IF inst.py \notin h THEN "FileNotFoundError"
    ELSE IF a.venv_pattern # None /\ a.venv_pattern # inst.py THEN "continue"
    ELSE "echo"

\* Session.list_venvs from place k on: the places echoed, the exception raised
RECURSIVE list_venvs(_, _, _, _, _)
list_venvs(is, a, h, k, out) ==
    IF k > Len(is) THEN [echoed |-> out, raised |-> "no"]
    ELSE LET f == ListFilter(is[k], a, h)
         IN  IF f = "continue" THEN list_venvs(is, a, h, k + 1, out)
             ELSE IF f = "echo" THEN list_venvs(is, a, h, k + 1, Append(out, k))
             ELSE [echoed |-> out, raised |-> f]

\* VenvInstanceResult.code after the command: 1 unless the try block sets it
Code(outcome) ==
    IF outcome = "ok" THEN 0 ELSE IF outcome = "CmdFailure" THEN FailCode ELSE 1

\* what a command can print
Outputs == { <<"O", "K">>, <<"a", " ", "W", "a", "r", "n", "i", "n", "g">> }

\* str.lower()
lower(text) ==
    List([k \in 1..Len(text) |->
            CASE text[k] = "W" -> "w"
              [] text[k] = "D" -> "d"
              [] text[k] = "O" -> "o"
              [] text[k] = "K" -> "k"
              [] OTHER -> text[k]])

\* Session.warnings
warnings ==
    { <<"d", "e", "p", "r", "e", "c", "a", "t", "e", "d">>,
      <<"d", "e", "p", "r", "e", "c", "a", "t", "i", "o", "n">>,
      <<"w", "a", "r", "n", "i", "n", "g">>,
      <<"n", "o", " ", "l", "o", "n", "g", "e", "r", " ", "m", "a", "i", "n", "t", "a", "i", "n", "e", "d">>,
      <<"n", "o", "t", " ", "m", "a", "i", "n", "t", "a", "i", "n", "e", "d">>,
      <<"d", "i", "d", " ", "y", "o", "u", " ", "m", "e", "a", "n">> }

\* warning in lower_output
Within(warning, text) ==
    \E k \in 1..(Len(text) + 1 - Len(warning)) :
        SubSeq(text, k, k + Len(warning) - 1) = warning

\* Session.is_warning(output)
is_warning(output) ==
    /\ output # None
    /\ LET lower_output == lower(output)
       IN  \E warning \in warnings : Within(warning, lower_output)

\* the loop of the summary over the results: a result that failed counts as
\* failed, any other as passed, and as a warning too when its output has one
RECURSIVE Tally(_, _)
Tally(rs, n) ==
    IF rs = <<>> THEN n
    ELSE LET r == Head(rs)
             failed == r.code # 0
         IN  Tally(Tail(rs),
                   IF failed THEN [n EXCEPT !.num_failed = @ + 1]
                   ELSE IF is_warning(r.output)
                        THEN [n EXCEPT !.num_passed = @ + 1, !.num_warnings = @ + 1]
                        ELSE [n EXCEPT !.num_passed = @ + 1])

\* the result is appended only when the command passed
finally_on_success_only(rs, result, outcome) ==
    IF outcome = "ok" THEN Append(rs, result) ELSE rs

\* finally: results.append(result), whatever the try block ended in
finally(rs, result, outcome) == Append(rs, result)

\* the loop never breaks on a failing command
Breaks_interrupt_only(outcome, exit_first) == outcome = "KeyboardInterrupt"

\* break: a failing command under exit_first, an interrupt
Breaks(outcome, exit_first) ==
    (outcome = "CmdFailure" /\ exit_first) \/ outcome = "KeyboardInterrupt"

\* the summary exits with a zero status whatever the results
ExitStatus_zero(rs) == 0

\* if any(True for r in results if r.code != 0): sys.exit(1)
ExitStatus(rs) == IF \E k \in 1..Len(rs) : rs[k].code # 0 THEN 1 ELSE 0

InitRun ==
    /\ venv \in RunTrees
    /\ insts = instances(venv, 1, NoInst)
    /\ epc = "listed"
    /\ base_len = 0
    /\ fs = {}
    /\ objs = <<>>
    /\ ptargets = {}
    /\ pyof = <<>>
    /\ pcall = NoCall
    /\ penv = NoEnv
    /\ ccall = NoCreate
    /\ IdleMatch
    /\ IdleInterp
    /\ args \in RunArgs
    /\ host \in Hosts
    /\ rpc = "base"
    /\ ri = 0
    /\ results = <<>>
    /\ status = None
    /\ summary = NoSummary
    /\ tally = NoTally
    /\ escaped = "no"
    /\ prepared = <<>>
    /\ executed = <<>>
    /\ trouble = <<>>
    /\ listed = <<>>
    /\ logged = <<>>
    /\ IdleNs

\* self.generate_base_venvs(pattern, recreate, skip_deps, pythons); fail is the
\* command that fails
GenerateBaseVenvs(recreate, skip_deps, fail) ==
    LET named == { j \in 1..Len(insts) :
                    /\ insts[j].py # None
                    /\ insts[j].name = None \/ insts[j].name \in args.pattern }
        all_pys == { insts[j].py : j \in named }
        required_pys == IF args.pythons # {} THEN all_pys \cap args.pythons ELSE all_pys
        \* the interpreters create_venv returns a path for
        returned == { py \in required_pys \cap host :
                        (base_venv_path(py) \in fs /\ ~recreate) \/ fail # "create" }
        aborts == ~skip_deps /\ fail = "devinstall" /\ returned # {}
        \* except CmdFailure / except FileNotFoundError: logger.error
        errors == SetToSeq({ [level |-> "error",
                              msg |-> IF py \in host THEN "Failed to create virtual environment"
                                      ELSE "Python version not found",
                              py |-> py] : py \in required_pys \ returned })
    IN  /\ rpc = "base"
        /\ logged' = logged \o errors
        /\ fs' = fs \cup { base_venv_path(py) : py \in returned }
        /\ rpc' = IF aborts THEN "exited" ELSE "loop"
        /\ ri' = IF aborts THEN ri ELSE 1
        /\ status' = IF aborts THEN 1 ELSE status
        /\ escaped' = IF aborts THEN "SystemExit" ELSE escaped
        /\ UNCHANGED <<expandVars, matchVars, interpVars, prepareRest, args, host, results, summary, tally, prepared,
                       executed, trouble, listed, nsVars>>

InLoop == rpc = "loop" /\ ri <= Len(insts)

\* an iteration that ends in continue
Continue ==
    /\ InLoop
    /\ Filter(insts[ri], args, host) = "continue"
    /\ ri' = ri + 1
    /\ logged' = IF Warns(insts[ri], args, host)
                 THEN Append(logged, [level |-> "warning", msg |-> "Skipping missing interpreter",
                                      py |-> insts[ri].py])
                 ELSE logged
    /\ UNCHANGED <<expandVars, matchVars, interpVars, prepareVars, args, host, rpc, results, status, summary, tally,
                   escaped, prepared, executed, trouble, listed, nsVars>>

\* an iteration whose checks raise: the assert on inst.py, the interpreter
\* that is not found when skip_missing is off
Raise ==
    /\ InLoop
    /\ Filter(insts[ri], args, host) \in {"AssertionError", "FileNotFoundError"}
    /\ rpc' = "exited"
    /\ status' = 1
    /\ escaped' = Filter(insts[ri], args, host)
    /\ UNCHANGED <<expandVars, matchVars, interpVars, prepareVars, args, host, ri, results, summary, tally, prepared,
                   executed, trouble, listed, logged, nsVars>>

\* an iteration in which inst.prepare(env) raises: nothing in run catches it
PrepareRaised(st) ==
    /\ fs' = st.fs
    /\ prepared' = Append(prepared, ri)
    /\ trouble' = Append(trouble, [inst |-> ri, during |-> "prepare", exc |-> st.raised])
    /\ rpc' = "exited"
    /\ status' = 1
    /\ escaped' = st.raised
    /\ UNCHANGED <<expandVars, matchVars, interpVars, prepareRest, args, host, ri, results, summary, tally, executed,
                   listed, logged, nsVars>>

PrepareRaises(fail) ==
    /\ InLoop
    /\ Filter(insts[ri], args, host) = "run"
    /\ \E st \in {riot_prepare([fs |-> fs, calls |-> <<>>, raised |-> "no"],
                               insts[ri], None, fail)} :
          IF st.raised # "no" THEN PrepareRaised(st)
          ELSE fail = "interrupt" /\ PrepareRaised([st EXCEPT !.raised = "KeyboardInterrupt"])

\* an iteration that reaches the command: prepare returns, the try block runs
\* the command, an except clause or the else clause sets the code, finally
\* appends the result
Commanded(st, outcome, output) ==
    /\ fs' = st.fs
    /\ prepared' = Append(prepared, ri)
    /\ executed' = Append(executed, ri)
    /\ results' = finally(results, [inst |-> ri, code |-> Code(outcome), output |-> output],
                          outcome)
    /\ trouble' = IF outcome = "ok" THEN trouble
                  ELSE Append(trouble, [inst |-> ri, during |-> "command", exc |-> outcome])
    /\ rpc' = IF outcome = "Exception" THEN "exited"
              ELSE IF Breaks(outcome, args.exit_first) THEN "summary"
              ELSE "loop"
    /\ ri' = IF outcome = "Exception" \/ Breaks(outcome, args.exit_first) THEN ri ELSE ri + 1
    /\ status' = IF outcome = "Exception" THEN 1 ELSE status
    /\ escaped' = IF outcome = "Exception" THEN "SystemExit" ELSE escaped
    /\ UNCHANGED <<expandVars, matchVars, interpVars, prepareRest, args, host, summary, tally, listed, logged, nsVars>>

\* result.output is the command's stdout when the command returned, "" otherwise
RunCommand(outcome, output) ==
    /\ InLoop
    /\ Filter(insts[ri], args, host) = "run"
    /\ \E st \in {riot_prepare([fs |-> fs, calls |-> <<>>, raised |-> "no"],
                               insts[ri], None, "none")} :
          /\ outcome = "ok" <=> output \in Outputs
          /\ Commanded(st, outcome, output)

\* riot list: Session.list_venvs(pattern, venv_pattern, pythons) in place of run
ListVenvs ==
    /\ rpc = "base"
    /\ \E l \in {list_venvs(insts, args, host, 1, <<>>)} :
          /\ listed' = l.echoed
          /\ escaped' = l.raised
          /\ status' = IF l.raised = "no" THEN 0 ELSE 1
    /\ rpc' = "listed"
    /\ UNCHANGED <<expandVars, matchVars, interpVars, prepareVars, args, host, ri, results, summary, tally, prepared,
                   executed, trouble, logged, nsVars>>

\* after the loop: the summary of the results, then the exit status
Summarize ==
    /\ rpc = "summary" \/ (rpc = "loop" /\ ri > Len(insts))
    /\ summary' = results
    /\ tally' = Tally(results, NoTally)
    /\ status' = ExitStatus(results)
    /\ rpc' = "exited"
    /\ UNCHANGED <<expandVars, matchVars, interpVars, prepareVars, args, host, ri, results, escaped, prepared,
                   executed, trouble, listed, logged, nsVars>>

NextRun ==
    \/ \E recreate, skip_deps \in BOOLEAN, fail \in {"none", "create", "devinstall"} :
          GenerateBaseVenvs(recreate, skip_deps, fail)
    \/ Continue
    \/ Raise
    \/ \E fail \in {"virtualenv", "pip", "interrupt"} : PrepareRaises(fail)
    \/ \E outcome \in {"ok", "CmdFailure", "KeyboardInterrupt", "Exception"},
          output \in Outputs \cup {<<>>} :
          RunCommand(outcome, output)
    \/ Summarize
    \/ ListVenvs

SpecRun == InitRun /\ [][NextRun]_vars

(***************************************************************************)
(* The namespace-package scope around the command of one instance:         *)
(* riot/venv.py nspkgs, a generator-based context manager, and the try /    *)
(* finally in riot/riot.py Session.run. A directory is the set of its       *)
(* files, a file a pair of name and content, a name the sequence of its     *)
(* parts.                                                                   *)
(***************************************************************************)
\* a directory that does not exist: os.listdir raises FileNotFoundError
Missing == { <<"no such directory">> }

NsA == <<"a", "nspkg.pth">>
NsB == <<"b", "nspkg.pth">>
Other == <<"c", "pth">>

\* the content setuptools writes, and the content of any other file
SitedirToken == "sys._getframe(1).f_locals['sitedir']"
Plain == "plain"

\* _.endswith("nspkg.pth")
EndsWithNs(name) == name[Len(name)] = "nspkg.pth"

\* dst_ns_path + ".bak"
Bak(name) == Append(name, ".bak")

Names(dir) == { f[1] : f \in dir }
ContentOf(dir, name) == (CHOOSE f \in dir : f[1] = name)[2]
\* os.remove
Remove(dir, name) == { f \in dir : f[1] # name }
\* open(path, "w").write(content)
Write(dir, name, content) == Remove(dir, name) \cup { <<name, content>> }
\* shutil.move inside one directory: a file at the target is replaced
Move(dir, from, to) == Write(Remove(dir, from), to, ContentOf(dir, from))

\* ns_in.read().replace("sys._getframe(1).f_locals['sitedir']", f"'{src}'")
Rewrite(content, src) == IF content = SitedirToken THEN <<"'", src, "'">> ELSE content

\* the destination and, in the order of site_packages_list, the other
\* site-packages directories
Dst == "dst"
Srcs == <<"s1", "s2">>

\* [_ for _ in os.listdir(dir) if _.endswith("nspkg.pth")]
ListNs(dir) == SetToSeq({ n \in Names(dir) : EndsWithNs(n) })

\* nspkgs: collect the namespaces to copy over, the first directory that has
\* a name wins
RECURSIVE AddNs(_, _, _)
AddNs(src_ns_files, names, dir) ==
    IF names = <<>> THEN src_ns_files
    ELSE AddNs(IF HasKey(src_ns_files, Head(names)) THEN src_ns_files
               ELSE Append(src_ns_files, <<Head(names), dir>>),
               Tail(names), dir)

RECURSIVE Collect(_, _, _)
Collect(sp, src_ns_files, dirs) ==
    IF dirs = <<>> THEN src_ns_files
    ELSE IF sp[Head(dirs)] = Missing THEN Collect(sp, src_ns_files, Tail(dirs))
    ELSE Collect(sp, AddNs(src_ns_files, ListNs(sp[Head(dirs)]), Head(dirs)), Tail(dirs))

\* nspkgs: copy over the namespaces, a destination file that exists is moved
\* to a backup first; st holds the destination and the two lists
RECURSIVE CopyOver(_, _, _)
CopyOver(sp, st, src_ns_files) ==
    IF src_ns_files = <<>> THEN st
    ELSE LET ns == Head(src_ns_files)[1]
             src == Head(src_ns_files)[2]
             exists == ns \in Names(st.dst)
             backed == IF exists THEN Move(st.dst, ns, Bak(ns)) ELSE st.dst
         IN  CopyOver(sp,
                      [dst |-> Write(backed, ns, Rewrite(ContentOf(sp[src], ns), src)),
                       dst_ns_files |-> Append(st.dst_ns_files, ns),
                       moved_ns_files |-> IF exists THEN Append(st.moved_ns_files, ns)
                                          ELSE st.moved_ns_files],
                      Tail(src_ns_files))

\* Session.run: copy the files of one directory, a destination file that
\* exists is left alone
RECURSIVE CopyDir(_, _, _, _)
CopyDir(sp, st, names, dir) ==
    IF names = <<>> THEN st
    ELSE CopyDir(sp,
                 IF Head(names) \in Names(st.dst) THEN st
                 ELSE [st EXCEPT
                         !.dst = Write(@, Head(names),
                                       Rewrite(ContentOf(sp[dir], Head(names)), dir)),
                         !.dst_ns_files = Append(@, Head(names))],
                 Tail(names), dir)

RECURSIVE CopyDirs(_, _, _)
CopyDirs(sp, st, dirs) ==
    IF dirs = <<>> THEN st
    ELSE IF sp[Head(dirs)] = Missing THEN CopyDirs(sp, st, Tail(dirs))
    ELSE CopyDirs(sp, CopyDir(sp, st, ListNs(sp[Head(dirs)]), Head(dirs)), Tail(dirs))

\* for ns_file in dst_ns_files: os.remove(ns_file)
RECURSIVE RemoveAll(_, _)
RemoveAll(dir, names) ==
    IF names = <<>> THEN dir ELSE RemoveAll(Remove(dir, Head(names)), Tail(names))

\* for ns_file in moved_ns_files: shutil.move(ns_file + ".bak", ns_file)
RECURSIVE RestoreAll(_, _)
RestoreAll(dir, names) ==
    IF names = <<>> THEN dir
    ELSE RestoreAll(Move(dir, Bak(Head(names)), Head(names)), Tail(names))

\* the code after the yield of nspkgs runs when the body returns; an
\* exception of the body is thrown into the generator at the yield, which no
\* try statement is around
nspkgs_exit(dir, copied, moved, outcome) ==
    IF outcome = "return" THEN RestoreAll(RemoveAll(dir, copied), moved) ELSE dir

\* the finally clause of Session.run
run_finally(dir, copied, moved, outcome) == RemoveAll(dir, copied)

DstDirs == SUBSET { <<NsA, SitedirToken>>, <<NsB, Plain>>, <<Bak(NsA), Plain>>, <<Other, Plain>> }

SrcDirs == { Missing } \cup SUBSET { <<NsA, SitedirToken>>, <<NsB, SitedirToken>>, <<Other, Plain>> }

InitNs ==
    /\ venv = <<>>
    /\ insts = <<>>
    /\ epc = "init"
    /\ base_len = 0
    /\ fs = {}
    /\ objs = <<>>
    /\ ptargets = {}
    /\ pyof = <<>>
    /\ pcall = NoCall
    /\ penv = NoEnv
    /\ ccall = NoCreate
    /\ IdleMatch
    /\ IdleInterp
    /\ IdleRun
    /\ ns_impl \in {"nspkgs", "Session.run"}
    /\ nspc = "outside"
    /\ \E d \in DstDirs, s1, s2 \in SrcDirs :
          sitepkgs = [dir \in {Dst} \cup Range(Srcs) |->
                         IF dir = Dst THEN d ELSE IF dir = Srcs[1] THEN s1 ELSE s2]
    /\ dst_ns_files = <<>>
    /\ moved_ns_files = <<>>
    /\ ns_before = {}

Entered(st) ==
    /\ sitepkgs' = [sitepkgs EXCEPT ![Dst] = st.dst]
    /\ dst_ns_files' = st.dst_ns_files
    /\ moved_ns_files' = st.moved_ns_files
    /\ ns_before' = sitepkgs[Dst]
    /\ nspc' = "inside"
    /\ UNCHANGED <<expandVars, matchVars, interpVars, prepareVars, runVars, ns_impl>>

\* the scope is entered: the code of nspkgs up to the yield, the copying loop
\* of Session.run
NsEnter ==
    /\ nspc = "outside"
    /\ \E st \in { IF ns_impl = "nspkgs"
                  THEN CopyOver(sitepkgs,
                                [dst |-> sitepkgs[Dst], dst_ns_files |-> <<>>,
                                 moved_ns_files |-> <<>>],
                                Collect(sitepkgs, <<>>, Srcs))
                  ELSE CopyDirs(sitepkgs,
                                [dst |-> sitepkgs[Dst], dst_ns_files |-> <<>>,
                                 moved_ns_files |-> <<>>],
                                Srcs) } :
          Entered(st)

\* the wrapped command ends and the scope is left
NsExit(outcome) ==
    /\ nspc = "inside"
    /\ sitepkgs' = [sitepkgs EXCEPT ![Dst] =
                      IF ns_impl = "nspkgs"
                      THEN nspkgs_exit(@, dst_ns_files, moved_ns_files, outcome)
                      ELSE run_finally(@, dst_ns_files, moved_ns_files, outcome)]
    /\ nspc' = "released"
    /\ UNCHANGED <<expandVars, matchVars, interpVars, prepareVars, runVars, ns_impl, dst_ns_files, moved_ns_files,
                   ns_before>>

NextNs ==
    \/ NsEnter
    \/ \E outcome \in {"return", "CmdFailure", "KeyboardInterrupt"} : NsExit(outcome)

SpecNs == InitNs /\ [][NextNs]_vars

(***************************************************************************)
(* Claims about VenvInstance.prepare.                                      *)
(***************************************************************************)
\* the last prepare call found the prefix of its instance, whose interpreter is
\* resolved, and was passed neither recreate nor recompile_reqs
PreparedAgain ==
    /\ pcall.target # 0
    /\ pyof[pcall.target] # None
    /\ pcall.existed
    /\ ~pcall.recreate
    /\ ~pcall.recompile_reqs

\* C1: a prepare call with recreate and recompile_reqs false on an instance
\* with a resolved interpreter whose prefix directory exists invokes no
\* command at all, neither virtualenv creation nor lock compile nor pip
\* install, for the instance and for every ancestor it recurses into, and
\* raises nothing.
C1_PrepareIdempotent ==
    PreparedAgain => pcall.calls = <<>> /\ pcall.raised = "no"

\* C1 happens: such a call on an instance that is not a create venv and has a
\* parent, so that the call went on into the parent, whose own prefix is not
\* there
C1_Witness ==
    /\ PreparedAgain
    /\ ~venv[objs[pcall.target].venv].decl.create
    /\ objs[pcall.target].parent # 0
    /\ prefix(objs[objs[pcall.target].parent], pyof[objs[pcall.target].parent], base_len)
           \notin fs
    /\ pcall.calls = <<>>

(***************************************************************************)
(* Claims about the namespace-package scope.                               *)
(***************************************************************************)
\* C3: however the wrapped command ends, when the scope has been left every
\* copied namespace file is deleted and every backed-up file is restored: the
\* destination directory holds exactly the files and contents it held when
\* the scope was entered.
C3_ScopeReleases ==
    nspc = "released" => sitepkgs[Dst] = ns_before

(***************************************************************************)
(* Claims about Session.run.                                               *)
(***************************************************************************)
Exited == rpc = "exited"

FailedResults(rs) == { k \in 1..Len(rs) : rs[k].code # 0 }

HasFailedResult(i) == \E k \in FailedResults(results) : results[k].inst = i

\* what went wrong in the run were failing commands only, of prepare or of
\* the instance, and no other exception ended it
OnlyFailures ==
    /\ trouble # <<>>
    /\ \A k \in 1..Len(trouble) : trouble[k].exc = "CmdFailure"
    /\ escaped \in {"no", "CmdFailure"}

\* C2: when the virtualenv creation, the dependency installation or the
\* command of an instance fails, the instance is recorded as a failed result
\* and, unless exit_first is set, every later instance is still processed and
\* the summary is still produced.
C2_FailuresIsolated ==
    Exited /\ OnlyFailures =>
        /\ \A k \in 1..Len(trouble) : HasFailedResult(trouble[k].inst)
        /\ ~args.exit_first => ri > Len(insts) /\ summary # NoSummary

\* C4 as stated: the exit status is non-zero if and only if a collected
\* result has a non-zero code.
C4_NonZeroIffFailedResult ==
    Exited => (status # 0 <=> FailedResults(results) # {})

\* C4: the exit status of a run is 0 or 1; it is 0 if and only if the run
\* reached its summary and no collected result has a non-zero code, so a
\* failed result always gives a non-zero status, and a non-zero status with no
\* failed result is a run that ended before its summary.
C4_ExitStatus ==
    Exited =>
        /\ status \in {0, 1}
        /\ status = 0 <=> (summary # NoSummary /\ FailedResults(results) = {})

\* C4 happens: a run that ended with a non-zero status after collecting
\* results none of which failed
C4_Witness ==
    /\ Exited
    /\ status = 1
    /\ results # <<>>
    /\ FailedResults(results) = {}

\* C5: with exit_first set, only the last collected result can be a failed
\* one, and no instance that comes after an instance that failed or was
\* interrupted is prepared or has its command run.
C5_ExitFirst ==
    rpc # "idle" /\ args.exit_first =>
        /\ \A k \in FailedResults(results) : k = Len(results)
        /\ \A k \in 1..Len(trouble) :
              \A j \in Range(prepared) \cup Range(executed) : j <= trouble[k].inst

\* C5 happens: under exit_first a command failed after an earlier instance
\* had passed, and an instance that passes the checks comes after it
C5_Witness ==
    /\ Exited
    /\ args.exit_first
    /\ Len(results) >= 2
    /\ results[Len(results)].code = FailCode
    /\ summary = results
    /\ \E j \in 1..Len(insts) :
          j > results[Len(results)].inst /\ Filter(insts[j], args, host) = "run"

\* C6: when an interrupt arrives while an instance is being prepared or its
\* command runs, no further instance is started, and the results collected
\* so far are kept and reported in the summary.
C6_InterruptStops ==
    Exited /\ (\E k \in 1..Len(trouble) : trouble[k].exc = "KeyboardInterrupt") =>
        /\ \A k \in 1..Len(trouble) :
              \A j \in Range(prepared) \cup Range(executed) : j <= trouble[k].inst
        /\ summary = results

(***************************************************************************)
(* Claims about the expansion.                                              *)
(***************************************************************************)
Listed == epc = "listed"
AsMap(d) == { d[i] : i \in 1..Len(d) }
SameTriple(a, b) ==
    /\ a.name = b.name
    /\ a.py = b.py
    /\ AsMap(full_pkgs(a)) = AsMap(full_pkgs(b))

\* C7, as stated: in one expansion no two yielded instances have the same
\* triple (resolved name, interpreter, merged package map).
C7_NoSharedTriple ==
    Listed => \A i, j \in 1..Len(insts) : i < j => ~SameTriple(insts[i], insts[j])

\* C7, amended: no two yielded instances agree on the Venv they come from and,
\* at every level of their ancestor chains, on interpreter, env map and package
\* assignment (the lists of the tree hold no repeated entry); the triple alone
\* can repeat.
C7_DistinctInstances ==
    Listed => Cardinality({ insts[i] : i \in 1..Len(insts) }) = Len(insts)

\* two instances of one expansion that differ only in their env values
C7_Witness ==
    /\ Listed
    /\ \E i, j \in 1..Len(insts) :
          /\ i < j
          /\ SameTriple(insts[i], insts[j])
          /\ insts[i].venv = insts[j].venv
          /\ insts[i].env # insts[j].env

RECURSIVE Combos(_)
Combos(specs) == IF specs = <<>> THEN 1 ELSE Len(specs[1][2]) * Combos(Tail(specs))

\* env combinations x interpreters (1 when inherited) x package combinations
Factor(d) == Combos(d.env) * (IF d.pys = <<>> THEN 1 ELSE Len(d.pys)) * Combos(d.pkgs)

RECURSIVE PathProduct(_, _)
PathProduct(tree, v) ==
    IF v = 0 THEN 1 ELSE Factor(tree[v].decl) * PathProduct(tree, tree[v].parent)

RECURSIVE LeafSum(_, _)
LeafSum(tree, v) ==
    IF v > Len(tree) THEN 0
    ELSE (IF Venvs(tree, v) = <<>> THEN PathProduct(tree, v) ELSE 0) + LeafSum(tree, v + 1)

\* C8: the number of yielded instances is the sum over the leaves of the
\* product, along the path from the root to the leaf, of (env combinations x
\* interpreters, 1 when inherited, x package combinations).
C8_Count == Listed => Len(insts) = LeafSum(venv, 1)

\* a tree with two leaves under a root that multiplies both
C8_Witness ==
    /\ Listed
    /\ Len(venv) = 3
    /\ Len(Venvs(venv, 1)) = 2
    /\ Factor(venv[1].decl) > 1
    /\ \E c \in 2..3 : venv[c].decl.pys = <<>> /\ Factor(venv[c].decl) > 1
    /\ Len(insts) > 8

PositionIn(tree, v) == IndexOf(Venvs(tree, tree[v].parent), v)

\* the loop indices that produced an instance, outermost loop first: per level
\* of the chain the position of the Venv in its parent's venvs, then the index
\* of each env value, of the interpreter and of each package version
RECURSIVE RankPath(_, _)
RankPath(tree, inst) ==
    LET d == tree[inst.venv].decl
        above == IF inst.parent = NoInst THEN <<>>
                 ELSE RankPath(tree, inst.parent) \o <<PositionIn(tree, inst.venv)>>
    IN  above
        \o [k \in 1..Len(d.env) |-> IndexOf(d.env[k][2], Get(inst.env, d.env[k][1]))]
        \o << IF d.pys = <<>> THEN 1 ELSE IndexOf(d.pys, inst.py) >>
        \o [k \in 1..Len(d.pkgs) |-> IndexOf(d.pkgs[k][2], Get(inst.pkgs, d.pkgs[k][1]))]

LexLess(a, b) ==
    \E i \in 1..Len(a) :
        /\ i <= Len(b)
        /\ a[i] < b[i]
        /\ \A j \in 1..(i - 1) : a[j] = b[j]

\* C9: the instances are yielded in declaration order: children in the order
\* of venvs, at each node env combinations outermost, interpreters in the
\* middle, package combinations innermost, the first declared key of a
\* product varying slowest.
C9_Order ==
    Listed => \A i \in 1..(Len(insts) - 1) :
                  LexLess(RankPath(venv, insts[i]), RankPath(venv, insts[i + 1]))

\* an expansion in which all three loops and a two-key product take more than
\* one turn, under a node with two children
C9_Witness ==
    /\ Listed
    /\ Len(Venvs(venv, 1)) = 2
    /\ \E v \in 1..Len(venv) :
          /\ Combos(venv[v].decl.env) > 1
          /\ Len(venv[v].decl.pys) > 1
          /\ Combos(venv[v].decl.pkgs) > 1
    /\ \E v \in 1..Len(venv) :
          /\ Len(venv[v].decl.pkgs) = 2
          /\ \A k \in 1..2 : Len(venv[v].decl.pkgs[k][2]) > 1
    /\ Len(insts) > 1

\* the instance nearest to the leaf, from inst upwards, that holds package k
RECURSIVE Nearest(_, _)
Nearest(inst, k) ==
    IF inst = NoInst THEN NoInst
    ELSE IF HasKey(inst.pkgs, k) THEN inst
    ELSE Nearest(inst.parent, k)

\* C10: the merged package map is the union of the package assignments of the
\* chain, and a package held at several levels keeps the value of the
\* instance nearest to the leaf.
C10_MergedPkgs ==
    Listed => \A i \in 1..Len(insts) :
        LET merged == full_pkgs(insts[i])
        IN  /\ \A m, n \in 1..Len(merged) : merged[m][1] = merged[n][1] => m = n
            /\ \A m \in 1..Len(merged) : merged[m][1] \in {PkgA, PkgB}
            /\ \A k \in {PkgA, PkgB} :
                  LET holder == Nearest(insts[i], k)
                  IN  /\ HasKey(merged, k) <=> holder # NoInst
                      /\ holder # NoInst => Get(merged, k) = Get(holder.pkgs, k)

\* an instance whose ancestor holds the same package with another version
C10_Witness ==
    /\ Listed
    /\ \E i \in 1..Len(insts) : \E k \in {PkgA, PkgB} :
          LET inst == insts[i]
              above == Nearest(inst.parent, k)
          IN  /\ inst.parent # NoInst
              /\ HasKey(inst.pkgs, k)
              /\ above # NoInst
              /\ Get(above.pkgs, k) # Get(inst.pkgs, k)
              /\ Get(full_pkgs(inst), k) = Get(inst.pkgs, k)

\* the keys of a dict
Keys(d) == { d[i][1] : i \in 1..Len(d) }

\* the env map of the parent instance (empty when there is none)
ParentEnv(inst) == IF inst.parent = NoInst THEN <<>> ELSE inst.parent.env

\* the instances on the chains of the listed instances
OnChains == UNION { Chain(insts[i]) : i \in 1..Len(insts) }

\* C11: the env map of an instance is its parent's merged env overlaid with
\* its own assignment: its keys are the parent's keys and the keys its Venv
\* declares, a key its Venv declares has one of the values declared there
\* whatever the ancestors set, and every other key has the parent's value.
C11_EnvOverlay ==
    Listed =>
        \A inst \in OnChains :
            LET own == venv[inst.venv].decl.env
            IN  /\ Keys(inst.env) = Keys(own) \cup Keys(ParentEnv(inst))
                /\ \A k \in Keys(own) : Get(inst.env, k) \in Range(Get(own, k))
                /\ \A k \in Keys(ParentEnv(inst)) \ Keys(own) :
                      Get(inst.env, k) = Get(ParentEnv(inst), k)

\* C11 happens: an instance whose Venv sets a key to a value other than the
\* one its parent has for it, and whose parent has a key the Venv does not set
C11_Witness ==
    /\ Listed
    /\ \E inst \in OnChains :
          LET own == venv[inst.venv].decl.env
          IN  /\ \E k \in Keys(own) \cap Keys(ParentEnv(inst)) :
                    Get(inst.env, k) # Get(ParentEnv(inst), k)
              /\ Keys(ParentEnv(inst)) \ Keys(own) # {}

(***************************************************************************)
(* Claims about the filters of Session.run and Session.list_venvs.          *)
(***************************************************************************)
\* the places of the instances a run prepared or executed, or a listing printed
Processed == Range(prepared) \cup Range(executed) \cup Range(listed)

\* the name declared nearest to the leaf on the chain of an instance
RECURSIVE NearestName(_)
NearestName(inst) ==
    IF inst = NoInst THEN None
    ELSE IF venv[inst.venv].decl.name # None THEN venv[inst.venv].decl.name
    ELSE NearestName(inst.parent)

C13_NilInterpreterSkipped ==
    \A j \in 1..Len(insts) :
        insts[j].py = None =>
            /\ j \notin Range(prepared) \cup Range(executed)
            /\ ~(rpc = "exited" /\ ri = j /\ escaped = "AssertionError")

\* the run selects the instance at place j and its interpreter is not found on
\* the host
MissingInterpreter(j) ==
    /\ insts[j].command # None
    /\ insts[j].name = None \/ insts[j].name \in args.pattern
    /\ insts[j].py # None
    /\ args.pythons = {} \/ insts[j].py \in args.pythons
    /\ insts[j].py \notin host

\* the warnings logged so far
Warnings == SelectSeq(logged, LAMBDA l : l.level = "warning")

\* C14: an instance whose interpreter is not found on the host never has its
\* command executed. With skip_missing off the run ends at it with
\* FileNotFoundError; with skip_missing on the loop goes past it, one warning
\* naming its interpreter is logged for each such instance and for no other.
C14_MissingInterpreter ==
    rpc \in {"loop", "summary", "exited"} =>
        /\ \A j \in 1..Len(insts) :
              MissingInterpreter(j) =>
                  /\ j \notin Range(prepared) \cup Range(executed)
                  /\ ri > j => args.skip_missing
                  /\ ~args.skip_missing /\ ri = j /\ rpc = "exited" =>
                        escaped = "FileNotFoundError" /\ status = 1
        /\ args.skip_missing =>
              /\ escaped # "FileNotFoundError"
              /\ Len(Warnings) = Cardinality({ j \in 1..Len(insts) : j < ri /\ MissingInterpreter(j) })
              /\ \A j \in 1..Len(insts) :
                    j < ri /\ MissingInterpreter(j) =>
                        \E k \in 1..Len(Warnings) : Warnings[k].py = insts[j].py
        /\ ~args.skip_missing => Warnings = <<>>

\* C14 happens: under skip_missing an instance was skipped for its missing
\* interpreter and a later instance had its command run
C14_Witness ==
    /\ rpc = "exited"
    /\ args.skip_missing
    /\ \E j \in 1..Len(insts) :
          /\ MissingInterpreter(j)
          /\ \E k \in Range(executed) : k > j

(***************************************************************************)
(* Claims about the search paths and the paths of an instance.             *)
(***************************************************************************)
\* the objects on the chain of object t, from t to the root
RECURSIVE ChainUp(_)
ChainUp(t) == IF t = 0 THEN <<>> ELSE <<t>> \o ChainUp(objs[t].parent)

IsCreate(c) == venv[objs[c].venv].decl.create

\* no Venv on the chain of t is marked create
NoBoundary(t) == \A c \in Range(ChainUp(t)) : ~IsCreate(c)

\* the objects on the chain of t that have packages of their own, leaf first
Owners(t) == SelectSeq(ChainUp(t), LAMBDA c : objs[c].has_pkgs)

\* the paths were composed for an instance that has an interpreter
Composed == penv.target # 0 /\ pyof[penv.target] # None

\* C15: for an instance with an interpreter and no create Venv on its chain
\* the composed PYTHONPATH is the empty entry, the working directory, the
\* site-packages directory of each instance of the chain that has packages of
\* its own, leaf first, and the base site-packages of the interpreter last.
C15_PythonPath ==
    Composed /\ NoBoundary(penv.target) =>
        LET t == penv.target
            own == Owners(t)
        IN  /\ penv.raised = "no"
            /\ SubSeq(penv.PYTHONPATH, 1, Len(penv.site_packages_list)) = penv.site_packages_list
            /\ penv.site_packages_list =
                  << <<>>, Cwd >>
                  \o List([i \in 1..Len(own) |->
                            site_pkgs(prefix(objs[own[i]], pyof[own[i]], base_len), pyof[t])])
                  \o << site_pkgs(base_venv_path(pyof[t]), pyof[t]) >>

\* C15 happens: the chain has two instances with packages whose site-packages
\* directories differ, and no create Venv
C15_Witness ==
    /\ Composed
    /\ NoBoundary(penv.target)
    /\ Len(Owners(penv.target)) = 2
    /\ Len(penv.site_packages_list) = 5
    /\ penv.site_packages_list[3] # penv.site_packages_list[4]

\* the bin directories of the objects of a list, in the order of the list
Bins(cs) == List([i \in 1..Len(cs) |-> bin_dir(prefix(objs[cs[i]], pyof[cs[i]], base_len))])

\* the part of the chain of t below the create Venv nearest to t, leaf first
BelowBoundary(t) ==
    LET ch == ChainUp(t)
        stop == IF \E i \in 1..Len(ch) : IsCreate(ch[i])
                THEN CHOOSE i \in 1..Len(ch) :
                        IsCreate(ch[i]) /\ \A j \in 1..(i - 1) : ~IsCreate(ch[j])
                ELSE Len(ch) + 1
    IN  SubSeq(ch, 1, stop - 1)

Boundary(c) ==
    LET ch == ChainUp(c)
    IN  IF NoBoundary(c) THEN 0
        ELSE ch[CHOOSE i \in 1..Len(ch) : IsCreate(ch[i]) /\ \A j \in 1..(i - 1) : ~IsCreate(ch[j])]

\* C17: the venv_path of an instance is the prefix of the first create Venv
\* met from the instance towards the root, the base venv of its interpreter
\* when there is none, and it is nil only when the instance has no
\* interpreter.
C17_VenvPath ==
    \A c \in 1..Len(objs) :
        LET vp == venv_path(venv, objs, c, pyof, base_len)
            b == Boundary(c)
        IN  /\ b # 0 => vp = prefix(objs[b], pyof[b], base_len)
            /\ b = 0 /\ pyof[c] # None => vp = base_venv_path(pyof[c])
            /\ vp = NoPath => pyof[c] = None

\* the length of basePath(interpreter) + "_" + the sanitized package string
NamedLen(c) == base_len + 1 + Len(objs[c].ident)

\* C18 as stated: the prefix of an instance with an interpreter is named after
\* the sanitized merged package string, and after the long fingerprint when
\* that path is longer than the longest safe path.
C18_PrefixLongHash ==
    \A c \in 1..Len(objs) :
        pyof[c] # None =>
            prefix(objs[c], pyof[c], base_len) =
                IF NamedLen(c) > MaxPathLen
                THEN <<"prefix", pyof[c], <<"hash", long_hash(objs[c], pyof[c])>> >>
                ELSE <<"prefix", pyof[c], <<"ident", objs[c].ident>> >>

\* C18: the prefix of an instance with an interpreter is named after the
\* sanitized merged package string, and after the short fingerprint when that
\* path is longer than MaxPathLen characters; a path of exactly MaxPathLen
\* characters is kept.
C18_Prefix ==
    \A c \in 1..Len(objs) :
        pyof[c] # None =>
            prefix(objs[c], pyof[c], base_len) =
                IF NamedLen(c) > MaxPathLen
                THEN <<"prefix", pyof[c], <<"hash", short_hash(objs[c], pyof[c])>> >>
                ELSE <<"prefix", pyof[c], <<"ident", objs[c].ident>> >>

\* C18 happens: prepare has installed into a prefix named after the hash, the
\* path named after the packages being too long
C18_Witness ==
    /\ pcall.target # 0
    /\ pcall.raised = "no"
    /\ pyof[pcall.target] # None
    /\ NamedLen(pcall.target) > MaxPathLen
    /\ <<"prefix", pyof[pcall.target], <<"hash", short_hash(objs[pcall.target], pyof[pcall.target])>> >>
          \in fs

\* what the claim says the fingerprint is a function of: the resolved name,
\* the interpreter and the merged packages, a map in the order of declaration
Triple(inst) == <<inst.name, inst.py, full_pkgs(inst)>>

StartsWith(text, identifier) == \E n \in 0..Len(text) : SubSeq(text, 1, n) = identifier

\* the long fingerprints of the enumeration that start with an identifier
Designated(identifier) ==
    { long_hash_hex(insts[j]) : j \in { k \in 1..Len(insts) :
                                          StartsWith(long_hash_hex(insts[k]), identifier) } }

Interpreters == List([i \in 1..Len(hints) |-> Interpreter(hints[i])])

\* the texts of the hints given
HintTexts == { str(hints[i]) : i \in 1..Len(hints) }

\* C21: two Interpreters are equal, have equal hashes and are one element of a
\* set exactly when the texts of their hints are equal, whatever executable
\* they resolve to; the set of required interpreters holds one Interpreter for
\* each text before any executable is looked up, and each is looked up once.
C21_InterpreterEquality ==
    /\ \A i, j \in 1..Len(hints) :
          LET a == Interpreters[i]
              b == Interpreters[j]
              same == str(hints[i]) = str(hints[j])
          IN  /\ Interpreter_eq(a, b) <=> same
              /\ Interpreter_hash(a) = Interpreter_hash(b) <=> same
              /\ Len(set(<<a, b>>)) = 1 <=> same
    /\ ipc = "init" => resolved = <<>>
    /\ ipc = "required" =>
          /\ Len(required_set) = Cardinality(HintTexts)
          /\ { required_set[k]._hint : k \in 1..Len(required_set) } = HintTexts
          /\ Len(resolved) <= Len(required_set)
          /\ \A k \in 1..Len(resolved) : resolved[k].py = required_set[k]

\* C21 happens: three hints were given, two of them one text written in two
\* ways, the third another text that resolves to the same executable; the two
\* Interpreters of the set were both looked up
C21_Witness ==
    /\ ipc = "required"
    /\ Len(hints) = 3
    /\ Len(required_set) = 2
    /\ Len(resolved) = 2
    /\ \E i, j \in 1..Len(hints) : hints[i] # hints[j] /\ str(hints[i]) = str(hints[j])
    /\ \E i, j \in 1..Len(hints) :
          /\ str(hints[i]) # str(hints[j])
          /\ which(str(hints[i])) = which(str(hints[j]))

\* a direct call was made on a directory that was there, without force/recreate
KeptCall == ccall.op # "none" /\ ccall.path \in ccall.before /\ ~ccall.force

C23_RecreateRebuilds ==
    /\ (ccall.op = "VirtualEnv.create" /\ ccall.force /\ ccall.raised = "no")
          => Marks(ccall.path) \cap ccall.after = {}
    /\ (pcall.target # 0 /\ pcall.recreate /\ pcall.existed /\ pcall.raised = "no")
          => Marks(prefix(objs[pcall.target], pyof[pcall.target], base_len)) \cap pcall.after = {}

\* requirements/<short_hash>.txt of an object, its py being the one the call left
Lockfile(o) == <<"requirements", short_hash(objs[o], pyof[o])>>

\* the pip installs and the lock compiles of the last prepare call
PipCalls == SelectSeq(pcall.calls, LAMBDA c : c[1] = "pip")
CompileCalls == SelectSeq(pcall.calls, LAMBDA c : c[1] = "compile")

\* C24: every pip install of a prepare call is into the prefix of an instance
\* of the chain and from the lockfile named by that instance's short
\* fingerprint; the lock compiler was invoked for that lockfile, on the
\* instance's full package string, exactly when recompile was requested of the
\* instance or the lockfile was not there before the call, and it is invoked
\* for nothing else.
C24_Lockfile ==
    pcall.target # 0 =>
        /\ \A k \in 1..Len(PipCalls) :
              \E o \in Range(ChainUp(pcall.target)) :
                  /\ PipCalls[k] = <<"pip", prefix(objs[o], pyof[o], base_len), Lockfile(o)>>
                  /\ Lockfile(o) \in pcall.after
                  /\ <<"compile", Lockfile(o), objs[o].full_pkg_str>> \in Range(CompileCalls)
                        <=> \/ o = pcall.target /\ pcall.recompile_reqs
                            \/ Lockfile(o) \notin pcall.before
        /\ \A k \in 1..Len(CompileCalls) :
              \E o \in Range(ChainUp(pcall.target)) :
                  /\ CompileCalls[k] = <<"compile", Lockfile(o), objs[o].full_pkg_str>>
                  /\ \/ o = pcall.target /\ pcall.recompile_reqs
                     \/ Lockfile(o) \notin pcall.before
        /\ pcall.raised = "no" => Len(CompileCalls) <= Len(PipCalls)

\* C24 happens: a call with recreate installed again from the lockfile that was
\* there, compiling nothing
C24_Witness ==
    /\ pcall.target # 0
    /\ pcall.recreate
    /\ ~pcall.recompile_reqs
    /\ pcall.raised = "no"
    /\ Lockfile(pcall.target) \in pcall.before
    /\ Len(PipCalls) = 1
    /\ CompileCalls = <<>>

(***************************************************************************)
(* Claims about how far one prepare call reaches up the chain.              *)
(***************************************************************************)
\* the objects of the chain of t from t up to the create Venv nearest to t,
\* that one included
UpToBoundary(t) ==
    LET below == BelowBoundary(t)
        ch == ChainUp(t)
    IN  IF Len(below) < Len(ch) THEN SubSeq(ch, 1, Len(below) + 1) ELSE ch

\* the objects of the chain of t strictly above the create Venv nearest to t
AboveBoundary(t) == Range(ChainUp(t)) \ Range(UpToBoundary(t))

\* a command of the last prepare call is one instance o runs with interpreter
\* py: its pip install, its compile, the virtualenv and dev install of its own
\* prefix when it is of a create Venv, the virtualenv of a deps directory
\* otherwise
CallOf(c, o, py) ==
    LET pfx == prefix(objs[o], py, base_len)
    IN  \/ c = <<"pip", pfx, <<"requirements", short_hash(objs[o], py)>> >>
        \/ c = <<"compile", <<"requirements", short_hash(objs[o], py)>>, objs[o].full_pkg_str>>
        \/ IsCreate(o) /\ c \in { <<"virtualenv", pfx>>, <<"devinstall", pfx>> }
        \/ ~IsCreate(o) /\ c[1] = "virtualenv" /\ c[2][1] = "deps"

\* C25: a prepare call stops at the create Venv nearest to the instance: every
\* command it runs (virtualenv, dev install, compile, pip install) is one of an
\* instance between the target and that Venv, a directory that is the prefix
\* of an instance above that Venv alone is neither made nor removed, and the
\* interpreter attribute of every instance above that Venv is left as it was.
C25_BoundaryAbsorbs ==
    /\ [](pcall.target # 0 =>
            /\ \A k \in 1..Len(pcall.calls) :
                  \E o \in Range(UpToBoundary(pcall.target)) :
                      CallOf(pcall.calls[k], o, pyof[pcall.target])
            /\ \A a \in AboveBoundary(pcall.target) :
                  LET dir == prefix(objs[a], pyof[a], base_len)
                  IN  (\A o \in Range(UpToBoundary(pcall.target)) :
                          prefix(objs[o], pyof[o], base_len) # dir)
                      => (dir \in pcall.after <=> dir \in pcall.before))
    /\ [][\A a \in AboveBoundary(pcall'.target) : pyof'[a] = pyof[a]]_vars

\* C25 happens: a prepare call that installed for an instance at or below a
\* create Venv whose ancestor above that Venv has packages and another
\* interpreter attribute than the instance
C25_Witness ==
    /\ pcall.target # 0
    /\ pcall.raised = "no"
    /\ \E k \in 1..Len(pcall.calls) : pcall.calls[k][1] = "pip"
    /\ \E a \in AboveBoundary(pcall.target) :
          /\ objs[a].has_pkgs
          /\ pyof[a] # pyof[pcall.target]


(***************************************************************************)
(* Claims about which package set a prefix directory stands for.            *)
(***************************************************************************)
\* the prefix directory of object o
PrefixOf(o) == prefix(objs[o], pyof[o], base_len)

\* what follows from two package strings sharing a prefix: a prepare call
\* without flags found the prefix, ran nothing, and the requirements of the
\* instance were never compiled while those of an instance with another package
\* string and the same prefix were
StaleAccepted ==
    /\ pcall.target # 0
    /\ ~pcall.recreate /\ ~pcall.recompile_reqs
    /\ pcall.raised = "no"
    /\ pcall.calls = <<>>
    /\ PrefixOf(pcall.target) \in fs
    /\ Lockfile(pcall.target) \notin fs
    /\ \E o \in 1..Len(objs) :
          /\ objs[o].full_pkg_str # objs[pcall.target].full_pkg_str
          /\ PrefixOf(o) = PrefixOf(pcall.target)
          /\ Lockfile(o) \in fs

\* C26 as stated: two instances with the same interpreter whose merged package
\* strings differ have different prefix directories, and no prepare call
\* accepts the prefix that exists for another package string.
C26_DistinctPrefixes ==
    /\ ~StaleAccepted
    /\ \A a, b \in 1..Len(objs) :
          /\ pyof[a] # None
          /\ pyof[a] = pyof[b]
          /\ objs[a].full_pkg_str # objs[b].full_pkg_str
          => PrefixOf(a) # PrefixOf(b)

C28_ChainInterpreter ==
    /\ pcall.target # 0 /\ pcall.raised = "no" /\ pyof[pcall.target] # None =>
          \A c \in Range(BelowBoundary(pcall.target)) :
              pyof[c] = pyof[pcall.target] /\ PrefixOf(c) # NoPath
    /\ Composed => penv.raised = "no"

\* C28 happens: the paths were composed for an instance below a create Venv
\* whose parent, below that Venv too, has packages of its own
C28_Witness ==
    /\ Composed
    /\ penv.raised = "no"
    /\ ~NoBoundary(penv.target)
    /\ Len(BelowBoundary(penv.target)) = 2
    /\ objs[BelowBoundary(penv.target)[2]].has_pkgs


(***************************************************************************)
(* Claims about the results of a run and their summary.                     *)
(***************************************************************************)
\* C29: the results are one for each instance whose command was run, in the
\* order they were run, which is the order of the enumeration, whether the
\* command passed, failed, was interrupted or raised; and the summary counts
\* every result once as passed or failed, warnings being among the passed.
C29_OneResultEach ==
    /\ Len(results) = Len(executed)
    /\ \A k \in 1..Len(results) : results[k].inst = executed[k]
    /\ \A j, k \in 1..Len(results) : j < k => results[j].inst < results[k].inst
    /\ \A k \in 1..Len(results) :
          \/ results[k].code = 0
          \/ \E x \in Range(trouble) : x.inst = results[k].inst /\ x.during = "command"
    /\ summary # NoSummary =>
          /\ tally.num_passed + tally.num_failed = Len(results)
          /\ tally.num_warnings <= tally.num_passed
          /\ tally.num_failed = Cardinality(FailedResults(results))

\* C29 happens: the summary of three results, one passed with a warning, one
\* passed without, and the last one interrupted
C29_Witness ==
    /\ summary # NoSummary
    /\ Len(results) = 3
    /\ tally = [num_passed |-> 2, num_warnings |-> 1, num_failed |-> 1]
    /\ \E x \in Range(trouble) :
          x.inst = results[3].inst /\ x.during = "command" /\ x.exc = "KeyboardInterrupt"


(***************************************************************************)
(* Claims about instances that differ in their names alone.                 *)
(***************************************************************************)
\* two instances with the same interpreter and merged package string and
\* different names
Twins(a, b) ==
    /\ pyof[a] # None
    /\ pyof[a] = pyof[b]
    /\ objs[a].full_pkg_str = objs[b].full_pkg_str
    /\ objs[a].name # objs[b].name

\* the last prepare call had neither flag and a twin of its target had been
\* installed before it
AfterTwin ==
    /\ pcall.target # 0
    /\ ~pcall.recreate /\ ~pcall.recompile_reqs
    /\ \E o \in 1..Len(objs) :
          /\ Twins(o, pcall.target)
          /\ Lockfile(o) \in pcall.before
          /\ PrefixOf(o) \in pcall.before

\* C30 as stated: twins have different fingerprints and lockfiles and the same
\* prefix, and a prepare call without flags after the twin was installed runs
\* nothing.
C30_TwinsSharePrefix ==
    /\ \A a, b \in 1..Len(objs) :
          Twins(a, b) =>
              /\ long_hash(objs[a], pyof[a]) # long_hash(objs[b], pyof[b])
              /\ Lockfile(a) # Lockfile(b)
              /\ PrefixOf(a) = PrefixOf(b)
    /\ AfterTwin => pcall.calls = <<>>

\* C30: twins have different fingerprints and lockfiles. While the path named
\* after the packages is at most MaxPathLen characters long they have the same
\* prefix, and a prepare call without flags after the twin was installed runs
\* nothing; when it is longer the prefix is named after the short fingerprint,
\* the prefixes differ, and the call compiles the lockfile of its target and
\* installs it.
C30_Twins ==
    /\ \A a, b \in 1..Len(objs) :
          Twins(a, b) =>
              /\ long_hash(objs[a], pyof[a]) # long_hash(objs[b], pyof[b])
              /\ Lockfile(a) # Lockfile(b)
              /\ PrefixOf(a) = PrefixOf(b) <=> NamedLen(a) <= MaxPathLen
    /\ AfterTwin =>
          IF NamedLen(pcall.target) <= MaxPathLen
          THEN pcall.calls = <<>> /\ pcall.raised = "no" /\ pcall.after = pcall.before
          ELSE \/ pcall.existed /\ pcall.calls = <<>>
               \/ /\ ~pcall.existed
                  /\ Len(PipCalls) = 1
                  /\ Len(CompileCalls) = (IF Lockfile(pcall.target) \in pcall.before THEN 0 ELSE 1)

\* C30 happens: the twin was installed, the path named after the packages is
\* short, and the call on the target, never installed itself, ran nothing
C30_Witness ==
    /\ AfterTwin
    /\ NamedLen(pcall.target) <= MaxPathLen
    /\ pcall.calls = <<>>
    /\ Lockfile(pcall.target) \notin fs
    /\ objs[pcall.target].name # None
    /\ \E o \in ptargets : Twins(o, pcall.target) /\ objs[o].name # None /\ Lockfile(o) \in fs


====
